---------------------------- MODULE Spec2Model ----------------------------
(***************************************************************************)
(* PaymentProcess: claim aggregation, PaymentCenter resolution and the     *)
(* validation engine of the payment-event reconciliation pipeline.         *)
(*                                                                         *)
(* The module holds one state machine per component; each has its own     *)
(* initial predicate, next-state relation and specification, and leaves    *)
(* the variables of the other components at their idle values:             *)
(*   SpecGrouping    group_by_parent / ParentGroup.add_claim               *)
(*   SpecKeys        derive_unique_keys / ClaimTransformer._derive_pc_key  *)
(*   SpecCenters     PaymentCenterManager (sync, create, build_cache)      *)
(*   SpecValidation  Validation (capture, aggregate) and raise_if_blocking *)
(*   SpecRun         run_dry_run / run_final_run and main                  *)
(*   SpecStats       _apply_claim_metrics / finalize_stats                 *)
(*   SpecFan         the fan-out helpers over executor.map                 *)
(*   SpecLines       ServiceLineProcessor.compute_service_line             *)
(*   SpecRollup      rollup_to_claim / apply_interest                      *)
(*   SpecConcurrent  run methods invoked on one PaymentProcessor           *)
(*   SpecSequences   Validation.validate_sequences                         *)
(*   SpecAttach      to_payment_center_claims / validate_payment_centers   *)
(*                                                                         *)
(* Python str values are TLA+ strings; Python's str ordering (by code      *)
(* point) is StrLess, computed character by character over CodePoints.     *)
(* Python lists are sequences, dicts are functions, None is the value None.*)
(***************************************************************************)
EXTENDS Integers, Sequences, FiniteSets, TLC

VARIABLES
    claims,      \* grouping: the claim list handed to group_by_parent
    grouped,     \* grouping: the mapping the last group_by_parent call returned, in iteration order
    regrouped,   \* grouping: the mapping the call before the last returned
    calls,       \* grouping: the number of group_by_parent calls made on claims, up to 2
    key_claims,  \* keys: the claim list handed to derive_unique_keys
    pc_type,     \* keys: the PaymentCenterType of the call
    keys,        \* keys: the set derive_unique_keys returned
    pc_keys,     \* keys: what _derive_pc_key returned for each claim of key_claims, None before the call
    derived,     \* keys: derive_unique_keys has returned
    _cache,      \* centers: PaymentCenterManager._cache
    _next_id,    \* centers: PaymentCenterManager._next_id
    summaries,   \* centers: the PaymentCenterSummary objects callers hold
    passed,      \* centers: passed[s] iff summaries[s] was given to create_missing_in_prod
    created,     \* centers: the dict the last create_missing_in_prod returned
    built,       \* centers: the cache the last build_cache returned
    last,        \* centers: the last call, [op, s]
    claims_list, \* validation: the materialized claim list of the run, handed to each check
    _findings,   \* validation: Validation._findings
    returned,    \* validation: the Findings the validate_* calls returned, in call order
    report,      \* validation: the ValidationReport the caller holds
    outcome,     \* validation: the last call, its arguments and what it returned or raised
    run_mode,    \* run: the mode main dispatches on, "dry-run" or "final"
    _config_loader, \* run: the kind of the injected config loader
    connection,  \* run: the datastore mapping the loader looks records up in
    backup_raises, \* run: the exception type claim_repo.backup raises, None when it returns
    _last_backup, \* run: ClaimRepository._last_backup
    now,         \* run: the clock now_utc() reads, one tick per call
    phase,       \* run: the position of the run
    payment_event, \* run: the PaymentEvent load_config returned, as a list of at most one
    stats,       \* run: the PaymentEventStats of the run
    initial_report, \* run: the report validate_initial returned
    center_summary, \* run: what process_payment_centers returned
    run_claims,  \* run: list(transform_claims(payment_event))
    trace,       \* run: the helpers invoked so far, in call order
    run_result,  \* run: what run_dry_run / run_final_run returned or raised
    main_result, \* run: what main returned or raised
    fan_helper,  \* fan-out: the helper called
    items,       \* fan-out: items_list, the materialized input of the call
    workers,     \* fan-out: the workers argument
    pool_error,  \* fan-out: the exception type the worker pool fails with, None when it never fails
    futures,     \* fan-out: the futures executor.map submitted, one per item, in submission order
    completed,   \* fan-out: the indices of the finished tasks, in completion order
    runs,        \* fan-out: runs[i] is the number of applications of fn to items[i]
    output,      \* fan-out: the results collected from the result iterator so far
    pool_failed, \* fan-out: the worker pool has failed during the call
    fan_phase,   \* fan-out: the position of the call
    fan_result,  \* fan-out: what the call returned or raised
    _rules_loaded, \* service lines: ServiceLineProcessor._rules_loaded
    service_line, \* service lines: the ServiceLine of the call
    line_event_id, \* service lines: payment_event.payment_event_id of the call
    context,     \* service lines: the PaymentContext of the call
    line_result, \* service lines: what compute_service_line returned or raised
    parent_group, \* rollup: the ParentGroup handed to rollup_to_claim
    interest_rules, \* rollup: the InterestRules handed to apply_interest
    days_since_due, \* rollup: (date.today() - due_date).days of the apply_interest calls
    rollup_result, \* rollup: what rollup_to_claim returned or raised
    claim_payment, \* rollup: the ClaimPayment object, as a list of at most one
    interest_totals, \* rollup: total_amount as each apply_interest call found it, in call order
    invocations, \* concurrent runs: the frame of each run method invoked on the one processor
    sequence_report, \* sequences: the SequenceReport handed to validate_sequences
    pc_claims,   \* attachment: what the last to_payment_center_claims returned or raised
    transforms   \* attachment: the number of to_payment_center_claims calls made

groupingVars == <<claims, grouped, regrouped, calls>>
keyVars == <<key_claims, pc_type, keys, pc_keys, derived>>
centerVars == <<_cache, _next_id, summaries, passed, created, built, last>>
validationVars == <<claims_list, _findings, returned, report, outcome>>
runVars ==
    <<run_mode, _config_loader, connection, backup_raises, _last_backup, now, phase,
      payment_event, stats, initial_report, center_summary, run_claims, trace, run_result,
      main_result>>
fanVars ==
    <<fan_helper, items, workers, pool_error, futures, completed, runs, output, pool_failed,
      fan_phase, fan_result>>
lineVars == <<_rules_loaded, service_line, line_event_id, context, line_result>>
rollupVars ==
    <<parent_group, interest_rules, days_since_due, rollup_result, claim_payment,
      interest_totals>>
concurrentVars == <<invocations>>
sequenceVars == <<sequence_report>>
attachVars == <<pc_claims, transforms>>
downstreamVars == <<rollupVars, concurrentVars, sequenceVars, attachVars>>
pipelineVars == <<runVars, fanVars, lineVars, downstreamVars>>
vars == <<groupingVars, keyVars, centerVars, validationVars, pipelineVars>>

----------------------------------------------------------------------------
(* Python values *)

\* None: no str of the model equals it
None == "<None>"

\* an empty dict
EmptyDict == [k \in {} |-> 0]

\* truthiness taken as `is not None`: the empty str passes
Truthy_NotNone(x) == x /= None

\* Python truthiness of an optional str: None and "" are falsy
Truthy(x) == x /= None /\ x /= ""

\* x or y, on optional strs
Or(x, y) == IF Truthy(x) THEN x ELSE y

\* the characters the strs of the model use, in code point order
CodePoints == "-0123456789:ABCDEFGHIJKLMNOPQRSTUVWXYZ"

\* ord(c) up to an order-preserving renumbering
Ord(c) == CHOOSE i \in 1..Len(CodePoints) : SubSeq(CodePoints, i, i) = c

\* a < b on strs: the first differing character decides, a proper prefix is smaller
RECURSIVE StrLessFrom(_, _, _)
StrLessFrom(a, b, i) ==
    IF i > Len(b) THEN FALSE
    ELSE IF i > Len(a) THEN TRUE
    ELSE IF SubSeq(a, i, i) = SubSeq(b, i, i) THEN StrLessFrom(a, b, i + 1)
    ELSE Ord(SubSeq(a, i, i)) < Ord(SubSeq(b, i, i))

StrLess(a, b) == StrLessFrom(a, b, 1)

\* needle in hay, on strs
Contains(hay, needle) ==
    \E i \in 1..(Len(hay) - Len(needle) + 1) : SubSeq(hay, i, i + Len(needle) - 1) = needle

\* the sequences over S of length at most n
SeqsUpTo(S, n) == UNION {[1..m -> S] : m \in 0..n}

\* the elements of a list
Range(s) == {s[i] : i \in 1..Len(s)}

----------------------------------------------------------------------------
(* data/models/claim.py *)

ClaimStatus == {"OPEN", "CLOSED", "ADJUSTED"}

\* FrequencyCode, by member value
ORIGINAL == "1"
INTERIM_CONTINUING == "2"
INTERIM_FINAL == "3"
REPLACEMENT == "4"
VOID == "5"
FrequencyCode == {ORIGINAL, INTERIM_CONTINUING, INTERIM_FINAL, REPLACEMENT, VOID}

Claim(id, parent, status, frequency, tin, npi, member, plan) ==
    [claim_id |-> id, parent_claim_core_id |-> parent, claim_type |-> "MEDICAL",
     status |-> status, frequency_code |-> frequency,
     tin |-> tin, npi |-> npi, member_id |-> member, benefit_plan_id |-> plan,
     service_lines |-> <<>>]

ParentGroup(parent_id) ==
    [parent_id |-> parent_id, paid_claims |-> <<>>, void_claims |-> <<>>, adjust_claims |-> <<>>]

\* add_claim with the status test ahead of the VOID test
BucketOf_StatusFirst(claim) ==
    IF claim.status = "ADJUSTED" \/ claim.frequency_code \in {REPLACEMENT, INTERIM_FINAL}
    THEN "adjust_claims"
    ELSE IF claim.frequency_code = VOID THEN "void_claims"
    ELSE "paid_claims"

\* the bucket add_claim appends to
BucketOf(claim) ==
    IF claim.frequency_code = VOID THEN "void_claims"
    ELSE IF claim.status = "ADJUSTED" \/ claim.frequency_code \in {REPLACEMENT, INTERIM_FINAL}
         THEN "adjust_claims"
    ELSE "paid_claims"

\* ParentGroup.add_claim: the group after the call
add_claim(group, claim) ==
    [group EXCEPT ![BucketOf(claim)] = Append(@, claim)]

----------------------------------------------------------------------------
(* core/claim_processor.py: group_by_parent *)

\* position of parent_id in a list of groups, 0 when absent
IndexOf(groups, parent_id) ==
    IF \E i \in 1..Len(groups) : groups[i].parent_id = parent_id
    THEN CHOOSE i \in 1..Len(groups) : groups[i].parent_id = parent_id
    ELSE 0

\* one turn of the loop: grouped.setdefault(parent, ParentGroup(parent)).add_claim(claim);
\* the dict is the list of its values in insertion order
GroupStep(groups, claim) ==
    LET i == IndexOf(groups, claim.parent_claim_core_id) IN
    IF i = 0 THEN Append(groups, add_claim(ParentGroup(claim.parent_claim_core_id), claim))
    ELSE [groups EXCEPT ![i] = add_claim(@, claim)]

RECURSIVE GroupLoop(_, _)
GroupLoop(groups, cs) ==
    IF cs = <<>> THEN groups ELSE GroupLoop(GroupStep(groups, Head(cs)), Tail(cs))

\* insert a group into a list sorted by parent_id, after the groups not greater than it
RECURSIVE InsertSorted(_, _)
InsertSorted(sorted, g) ==
    IF sorted = <<>> THEN <<g>>
    ELSE IF StrLess(g.parent_id, Head(sorted).parent_id) THEN <<g>> \o sorted
    ELSE <<Head(sorted)>> \o InsertSorted(Tail(sorted), g)

\* sorted(grouped.items(), key=lambda item: item[0]): a stable sort
RECURSIVE SortedByParent(_)
SortedByParent(groups) ==
    IF groups = <<>> THEN <<>>
    ELSE InsertSorted(SortedByParent(SubSeq(groups, 1, Len(groups) - 1)), groups[Len(groups)])

\* group_by_parent returning the dict in insertion order
group_by_parent_Unsorted(cs) == GroupLoop(<<>>, cs)

group_by_parent(cs) == SortedByParent(GroupLoop(<<>>, cs))

----------------------------------------------------------------------------
(* data/models/payment_center.py, core/payment_center.py: composite keys *)

\* PaymentCenterType, by member value
PaymentCenterType == {"PROVIDER", "DMR"}

\* the identifier derive_unique_keys picks for a claim
Identifier(claim, t) ==
    IF t = "PROVIDER"
    THEN Or(claim.tin, Or(claim.npi, Or(claim.member_id, "UNKNOWN")))
    ELSE Or(claim.member_id, Or(claim.benefit_plan_id, "UNKNOWN"))

\* keys after the loop of derive_unique_keys over cs
RECURSIVE DeriveLoop(_, _, _)
DeriveLoop(ks, cs, t) ==
    IF cs = <<>> THEN ks
    ELSE DeriveLoop(ks \cup {t \o ":" \o Identifier(Head(cs), t)}, Tail(cs), t)

\* PaymentCenterManager.derive_unique_keys
derive_unique_keys(cs, t) == DeriveLoop({}, cs, t)

\* ClaimTransformer._derive_pc_key
_derive_pc_key(claim, t) ==
    LET identifier ==
            IF t = "PROVIDER"
            THEN Or(claim.tin, Or(claim.npi, Or(claim.member_id, "UNKNOWN")))
            ELSE Or(claim.member_id, Or(claim.benefit_plan_id, "UNKNOWN"))
    IN  t \o ":" \o identifier

----------------------------------------------------------------------------
(* core/payment_center.py: PaymentCenterManager *)

\* PaymentCenterSummary()
PaymentCenterSummary ==
    [existing_ids |-> <<>>, created_ws_ids |-> <<>>, created_prod_ids |-> <<>>,
     missing_keys |-> <<>>]

\* the smallest str of a non-empty set
MinStr(S) == CHOOSE a \in S : \A b \in S : a = b \/ StrLess(a, b)

\* sorted(keys) on a set of strs
RECURSIVE SortedKeys(_)
SortedKeys(S) ==
    IF S = {} THEN <<>> ELSE <<MinStr(S)>> \o SortedKeys(S \ {MinStr(S)})

\* the loop of sync_to_ws over the sorted keys
RECURSIVE SyncLoop(_, _, _)
SyncLoop(summary, ks, cache) ==
    IF ks = <<>> THEN summary
    ELSE IF Head(ks) \in DOMAIN cache
         THEN SyncLoop([summary EXCEPT !.existing_ids = Append(@, cache[Head(ks)])], Tail(ks), cache)
         ELSE SyncLoop([summary EXCEPT !.missing_keys = Append(@, Head(ks))], Tail(ks), cache)

\* sync_to_ws iterating the keys from the largest to the smallest
sync_to_ws_Descending(ks, cache) ==
    LET asc == SortedKeys(ks) IN
    SyncLoop(PaymentCenterSummary, [i \in 1..Len(asc) |-> asc[Len(asc) + 1 - i]], cache)

\* PaymentCenterManager.sync_to_ws: the summary returned
sync_to_ws(ks, cache) == SyncLoop(PaymentCenterSummary, SortedKeys(ks), cache)

\* a turn of create_missing_in_prod that allocates an id without looking in the cache
CreateStep_NoLookup(m, key) ==
    [m EXCEPT !.cache = (key :> m.next_id) @@ [k \in DOMAIN m.cache \ {key} |-> m.cache[k]],
              !.summary.created_ws_ids = Append(@, m.next_id),
              !.summary.created_prod_ids = Append(@, m.next_id),
              !.next_id = m.next_id + 1,
              !.created = (key :> m.next_id) @@ [k \in DOMAIN m.created \ {key} |-> m.created[k]]]

\* one turn of the loop of create_missing_in_prod; m holds the manager's _cache and
\* _next_id, the summary and the dict created
CreateStep(m, key) ==
    LET n == IF key \in DOMAIN m.cache THEN m
             ELSE [m EXCEPT !.cache = (key :> m.next_id) @@ m.cache,
                            !.summary.created_ws_ids = Append(@, m.next_id),
                            !.summary.created_prod_ids = Append(@, m.next_id),
                            !.next_id = m.next_id + 1]
    IN  [n EXCEPT !.created = (key :> n.cache[key]) @@ n.created]

RECURSIVE CreateLoop(_, _)
CreateLoop(m, ks) ==
    IF ks = <<>> THEN m ELSE CreateLoop(CreateStep(m, Head(ks)), Tail(ks))

\* PaymentCenterManager.create_missing_in_prod: the manager, the summary and the
\* returned dict after the call
create_missing_in_prod(cache, next_id, summary) ==
    CreateLoop([cache |-> cache, next_id |-> next_id, summary |-> summary, created |-> EmptyDict],
               summary.missing_keys)

\* relevant_ids of build_cache
RelevantIds(summary) ==
    Range(summary.existing_ids \o summary.created_ws_ids \o summary.created_prod_ids)

\* build_cache returning nothing for a summary without ids
build_cache_EmptyForNoIds(cache, summary) ==
    [k \in {k \in DOMAIN cache : cache[k] \in RelevantIds(summary)} |-> cache[k]]

\* PaymentCenterManager.build_cache: the cache returned
build_cache(cache, summary) ==
    [k \in {k \in DOMAIN cache : RelevantIds(summary) = {} \/ cache[k] \in RelevantIds(summary)}
        |-> cache[k]]

----------------------------------------------------------------------------
(* data/models/stats.py, core/validation.py: Validation *)

Finding(severity, message, count, sample_ids) ==
    [severity |-> severity, message |-> message, count |-> count, sample_ids |-> sample_ids]

ValidationReport(findings, blocked) == [findings |-> findings, blocked |-> blocked]

\* ids[:5]
FirstFive(ids) == SubSeq(ids, 1, IF Len(ids) < 5 THEN Len(ids) ELSE 5)

\* Validation._capture: _findings after the call
_capture(findings, finding) == Append(findings, finding)

\* the loop of validate_duplicates: the duplicates list after cs, given the ids seen
RECURSIVE DuplicatesLoop(_, _, _)
DuplicatesLoop(seen, duplicates, cs) ==
    IF cs = <<>> THEN duplicates
    ELSE IF Head(cs).claim_id \in seen
         THEN DuplicatesLoop(seen, Append(duplicates, Head(cs).claim_id), Tail(cs))
         ELSE DuplicatesLoop(seen \cup {Head(cs).claim_id}, duplicates, Tail(cs))

\* validate_duplicates counting every occurrence of a repeated claim id
validate_duplicates_CountAll(cs) ==
    LET duplicates == SelectSeq([i \in 1..Len(cs) |-> cs[i].claim_id],
                                LAMBDA id : \E i, j \in 1..Len(cs) :
                                    i /= j /\ cs[i].claim_id = id /\ cs[j].claim_id = id)
    IN  Finding(IF duplicates = <<>> THEN "INFO" ELSE "CRITICAL",
                IF duplicates = <<>> THEN "No duplicate claims detected"
                ELSE "Duplicate claim identifiers detected",
                Len(duplicates), FirstFive(duplicates))

\* Validation.validate_duplicates: the Finding built
validate_duplicates(cs) ==
    LET duplicates == DuplicatesLoop({}, <<>>, cs) IN
    Finding(IF duplicates = <<>> THEN "INFO" ELSE "CRITICAL",
            IF duplicates = <<>> THEN "No duplicate claims detected"
            ELSE "Duplicate claim identifiers detected",
            Len(duplicates), FirstFive(duplicates))

\* Validation.validate_void_linkages: the Finding built
validate_void_linkages(cs) ==
    LET flagged == SelectSeq(cs, LAMBDA c :
                        c.frequency_code = VOID /\ ~Truthy(c.parent_claim_core_id))
        invalid == [i \in 1..Len(flagged) |-> flagged[i].claim_id]
    IN  Finding(IF invalid = <<>> THEN "INFO" ELSE "WARNING",
                IF invalid = <<>> THEN "Void linkages valid"
                ELSE "Void claims missing parent linkage",
                Len(invalid), FirstFive(invalid))

\* the lower-case letters and, at the same places, their upper-case forms
LowerCase == "abcdefghijklmnopqrstuvwxyz"
UpperCase == "ABCDEFGHIJKLMNOPQRSTUVWXYZ"

\* str.upper() of each lower-case letter
UpperOfLower ==
    [c \in {SubSeq(LowerCase, i, i) : i \in 1..Len(LowerCase)} |->
        LET i == CHOOSE i \in 1..Len(LowerCase) : SubSeq(LowerCase, i, i) = c
        IN  SubSeq(UpperCase, i, i)]

\* str.upper() of one character
UpperChar(c) == IF c \in DOMAIN UpperOfLower THEN UpperOfLower[c] ELSE c

\* str.upper()
RECURSIVE Upper(_)
Upper(str) ==
    IF str = "" THEN "" ELSE UpperChar(SubSeq(str, 1, 1)) \o Upper(SubSeq(str, 2, Len(str)))

is_critical(finding) == Upper(finding.severity) = "CRITICAL"

\* aggregate_findings blocking on the captured findings alone
aggregate_findings_CapturedOnly(captured, findings) ==
    ValidationReport(captured \o findings,
                     \E i \in 1..Len(captured) : is_critical(captured[i]))

\* Validation.aggregate_findings: the report returned
aggregate_findings(captured, findings) ==
    LET combined == captured \o findings IN
    ValidationReport(combined, \E i \in 1..Len(combined) : is_critical(combined[i]))

\* "; ".join(parts)
RECURSIVE Join(_)
Join(parts) ==
    IF parts = <<>> THEN ""
    ELSE IF Len(parts) = 1 THEN parts[1]
    ELSE parts[1] \o "; " \o Join(Tail(parts))

\* what a call either returns or raises
Returns(value) == [raised |-> FALSE, value |-> value]
Raises(type, message) == [raised |-> TRUE, type |-> type, message |-> message]

\* raise_if_blocking listing every finding of a blocked report
raise_if_blocking_ListAll(rep, mode) ==
    IF rep.blocked
    THEN Raises("RuntimeError",
                mode \o " run blocked: "
                     \o Join([i \in 1..Len(rep.findings) |->
                                rep.findings[i].message \o " ("
                                    \o ToString(rep.findings[i].count) \o ")"]))
    ELSE Returns(None)

\* raise_if_blocking: the RuntimeError raised, or the return of None
raise_if_blocking(rep, mode) ==
    IF rep.blocked
    THEN LET critical == SelectSeq(rep.findings, is_critical)
             messages == Join([i \in 1..Len(critical) |->
                                critical[i].message \o " (" \o ToString(critical[i].count) \o ")"])
         IN  Raises("RuntimeError", mode \o " run blocked: " \o messages)
    ELSE Returns(None)

----------------------------------------------------------------------------
(* The grouping machine: a claim list is fetched, then grouped, then grouped again *)

\* the longest claim list handed to group_by_parent
MaxClaims == 3

\* every status and frequency code under one claim id and parent, and original and
\* void claims of a second claim id under two further parents, one the empty parent id
GroupingClaims ==
    {Claim("CLM-1", "PARENT-2", s, f, None, None, None, None) : s \in ClaimStatus, f \in FrequencyCode}
    \cup {Claim("CLM-2", p, "OPEN", f, None, None, None, None) :
             p \in {"", "PARENT-10"}, f \in {ORIGINAL, VOID}}

IdleGrouping == claims = <<>> /\ grouped = <<>> /\ regrouped = <<>> /\ calls = 0
IdleKeys ==
    key_claims = <<>> /\ pc_type = "PROVIDER" /\ keys = {} /\ pc_keys = <<>> /\ derived = FALSE
IdleCenters ==
    /\ _cache = EmptyDict /\ _next_id = 1 /\ summaries = <<>> /\ passed = <<>>
    /\ created = EmptyDict /\ built = EmptyDict /\ last = [op |-> "init", s |-> 0]
IdleValidation ==
    /\ claims_list = <<>> /\ _findings = <<>> /\ returned = <<>>
    /\ report = ValidationReport(<<>>, FALSE) /\ outcome = [op |-> "init"]

IdleRun ==
    /\ run_mode = "dry-run" /\ _config_loader = "ConfigLoader" /\ connection = EmptyDict
    /\ backup_raises = None /\ _last_backup = None /\ now = 0 /\ phase = "Idle"
    /\ payment_event = <<>> /\ stats = <<>> /\ initial_report = ValidationReport(<<>>, FALSE)
    /\ center_summary = <<>> /\ run_claims = <<>> /\ trace = <<>>
    /\ run_result = <<>> /\ main_result = <<>>
IdleFan ==
    /\ fan_helper = "thread_map" /\ items = <<>> /\ workers = 1 /\ pool_error = None
    /\ futures = <<>> /\ completed = <<>> /\ runs = <<>> /\ output = <<>>
    /\ pool_failed = FALSE /\ fan_phase = "idle" /\ fan_result = <<>>
IdleLines ==
    /\ _rules_loaded = FALSE /\ service_line = <<>> /\ line_event_id = ""
    /\ context = <<>> /\ line_result = <<>>
IdleRollup ==
    /\ parent_group = <<>> /\ interest_rules = <<>> /\ days_since_due = 0
    /\ rollup_result = <<>> /\ claim_payment = <<>> /\ interest_totals = <<>>
IdleConcurrent == invocations = <<>>
IdleSequences == sequence_report = <<>>
IdleAttach == pc_claims = <<>> /\ transforms = 0
IdleDownstream == IdleRollup /\ IdleConcurrent /\ IdleSequences /\ IdleAttach
IdlePipeline == IdleRun /\ IdleFan /\ IdleLines /\ IdleDownstream

InitGrouping ==
    /\ claims \in SeqsUpTo(GroupingClaims, MaxClaims)
    /\ grouped = <<>> /\ regrouped = <<>> /\ calls = 0
    /\ IdleKeys /\ IdleCenters /\ IdleValidation /\ IdlePipeline

\* a call of group_by_parent on the fetched claims; the claim list is only read
GroupByParent ==
    /\ grouped' = group_by_parent(claims)
    /\ regrouped' = grouped
    /\ calls' = IF calls < 2 THEN calls + 1 ELSE calls
    /\ UNCHANGED <<claims, keyVars, centerVars, validationVars, pipelineVars>>

NextGrouping == GroupByParent

SpecGrouping == InitGrouping /\ [][NextGrouping]_vars

\* the buckets of a group
Buckets == {"paid_claims", "adjust_claims", "void_claims"}

\* the number of positions of list s that hold x
Occurrences(s, x) == Cardinality({i \in 1..Len(s) : s[i] = x})

\* the bucket the classification rule gives a claim, in the rule's priority order
RuleBucket(c) ==
    CASE c.frequency_code = "5" -> "void_claims"
      [] c.frequency_code /= "5" /\ (c.status = "ADJUSTED" \/ c.frequency_code \in {"4", "3"})
            -> "adjust_claims"
      [] OTHER -> "paid_claims"

\* C1: group_by_parent puts every input claim, repeated claim ids included, exactly
\* once in the group keyed by its parent_claim_core_id, in the bucket the rule
\* VOID -> void, else ADJUSTED or REPLACEMENT or INTERIM_FINAL -> adjust, else paid gives
C1_EveryClaimInItsBucket ==
    calls >= 1 =>
        /\ \A i, j \in 1..Len(grouped) : grouped[i].parent_id = grouped[j].parent_id => i = j
        /\ \A i \in 1..Len(grouped) : \A b \in Buckets : \A k \in 1..Len(grouped[i][b]) :
              LET c == grouped[i][b][k] IN
              /\ c.parent_claim_core_id = grouped[i].parent_id
              /\ b = RuleBucket(c)
        /\ \A n \in 1..Len(claims) :
              \E i \in 1..Len(grouped) :
                  /\ grouped[i].parent_id = claims[n].parent_claim_core_id
                  /\ Occurrences(grouped[i][RuleBucket(claims[n])], claims[n])
                        = Occurrences(claims, claims[n])
        /\ \A i \in 1..Len(grouped) :
              Len(grouped[i].paid_claims) + Len(grouped[i].adjust_claims)
                  + Len(grouped[i].void_claims)
                = Cardinality({n \in 1..Len(claims) :
                                  claims[n].parent_claim_core_id = grouped[i].parent_id})

\* C1 witness: a grouped list that repeats a claim id and holds an ADJUSTED void claim
C1_Witness ==
    /\ calls >= 1
    /\ \E m, n \in 1..Len(claims) : m < n /\ claims[m] = claims[n]
    /\ \E n \in 1..Len(claims) : claims[n].frequency_code = VOID /\ claims[n].status = "ADJUSTED"

\* the claims of cs, in order, that belong to parent p and bucket b
Arrivals(cs, p, b) ==
    SelectSeq(cs, LAMBDA c : c.parent_claim_core_id = p /\ RuleBucket(c) = b)

\* C2: the mapping iterates its groups in ascending order of parent_id, each bucket
\* lists its claims in arrival order, a second run on the same input returns the
\* same mapping, and the empty input gives the empty mapping
C2_OrderStable ==
    /\ calls >= 1 =>
        /\ \A i \in 1..(Len(grouped) - 1) : StrLess(grouped[i].parent_id, grouped[i + 1].parent_id)
        /\ \A i \in 1..Len(grouped) : \A b \in Buckets :
              grouped[i][b] = Arrivals(claims, grouped[i].parent_id, b)
        /\ claims = <<>> => grouped = <<>>
    /\ calls >= 2 => grouped = regrouped

\* C2 witness: a second run over three parents that arrived out of order
C2_Witness ==
    /\ calls = 2
    /\ Len(grouped) = 3
    /\ claims[1].parent_claim_core_id = "PARENT-2"
    /\ claims[2].parent_claim_core_id = "PARENT-10"
    /\ claims[3].parent_claim_core_id = ""

----------------------------------------------------------------------------
(* The key machine: both key derivations applied to one claim list *)

\* the longest claim list handed to derive_unique_keys
MaxKeyClaims == 2

\* an optional str field: missing, empty or set
Optional(v) == {None, "", v}

\* every choice of tin, npi and member_id beside a benefit plan, and every choice of
\* member_id and benefit_plan_id beside a tin and an npi
KeyClaims ==
    {Claim("CLM-1", "PARENT-1", "OPEN", ORIGINAL, t, n, m, "PLAN-A") :
        t \in Optional("TIN-1"), n \in Optional("NPI-1"), m \in Optional("MEM-1")}
    \cup {Claim("CLM-1", "PARENT-1", "OPEN", ORIGINAL, "TIN-1", "NPI-1", m, b) :
        m \in Optional("MEM-1"), b \in Optional("PLAN-A")}

InitKeys ==
    /\ key_claims \in SeqsUpTo(KeyClaims, MaxKeyClaims)
    /\ pc_type \in PaymentCenterType
    /\ keys = {}
    /\ pc_keys = [i \in 1..Len(key_claims) |-> None]
    /\ derived = FALSE
    /\ IdleGrouping /\ IdleCenters /\ IdleValidation /\ IdlePipeline

\* PaymentCenterManager.derive_unique_keys(key_claims, pc_type)
DeriveUniqueKeys ==
    /\ keys' = derive_unique_keys(key_claims, pc_type)
    /\ derived' = TRUE
    /\ UNCHANGED <<key_claims, pc_type, pc_keys, groupingVars, centerVars, validationVars, pipelineVars>>

\* ClaimTransformer._derive_pc_key(key_claims[i], pc_type)
DerivePcKey(i) ==
    /\ pc_keys' = [pc_keys EXCEPT ![i] = _derive_pc_key(key_claims[i], pc_type)]
    /\ UNCHANGED <<key_claims, pc_type, keys, derived, groupingVars, centerVars, validationVars, pipelineVars>>

NextKeys ==
    \/ DeriveUniqueKeys
    \/ \E i \in 1..Len(key_claims) : DerivePcKey(i)

SpecKeys == InitKeys /\ [][NextKeys]_vars

\* the first str of candidates that is neither missing nor empty, else "UNKNOWN"
FirstNonEmpty(candidates) ==
    LET set == {i \in 1..Len(candidates) : candidates[i] \notin {None, ""}} IN
    IF set = {} THEN "UNKNOWN"
    ELSE candidates[CHOOSE i \in set : \A j \in set : i <= j]

\* the composite key the derivation rule gives claim c for PaymentCenter type t
RuleKey(c, t) ==
    t \o ":" \o (IF t = "PROVIDER" THEN FirstNonEmpty(<<c.tin, c.npi, c.member_id>>)
                 ELSE FirstNonEmpty(<<c.member_id, c.benefit_plan_id>>))

\* C3: derive_unique_keys returns exactly the rule's keys "{pc_type}:{identifier}" of
\* its claims, _derive_pc_key returns the same key for each claim, and no key has an
\* empty identifier segment: it is "UNKNOWN" when every candidate is missing or empty
C3_CompositeKey ==
    /\ derived =>
        /\ keys = {RuleKey(key_claims[i], pc_type) : i \in 1..Len(key_claims)}
        /\ \A k \in keys : Len(k) > Len(pc_type) + 1 /\ SubSeq(k, 1, Len(pc_type) + 1) = pc_type \o ":"
    /\ \A i \in 1..Len(key_claims) : pc_keys[i] /= None =>
        /\ pc_keys[i] = RuleKey(key_claims[i], pc_type)
        /\ Len(pc_keys[i]) > Len(pc_type) + 1
        /\ derived => pc_keys[i] \in keys

\* C3 witness: both derivations ran on a claim whose tin is empty and whose npi and
\* member_id are missing, beside a claim with an npi: the keys are UNKNOWN and the npi
C3_Witness ==
    /\ derived
    /\ pc_type = "PROVIDER"
    /\ Len(key_claims) = 2
    /\ key_claims[1].tin = "" /\ key_claims[1].npi = None /\ key_claims[1].member_id = None
    /\ pc_keys[1] = "PROVIDER:UNKNOWN"
    /\ keys = {"PROVIDER:UNKNOWN", "PROVIDER:NPI-1"}

----------------------------------------------------------------------------
(* The center machine: one PaymentCenterManager and the summaries its callers hold *)

\* the most summaries callers hold at once
MaxSummaries == 2

\* the composite keys callers synchronize
CenterKeys == {"PROVIDER:TIN-1", "PROVIDER:UNKNOWN", "DMR:MEM-1"}

InitCenters ==
    /\ _cache = EmptyDict /\ _next_id = 1
    /\ summaries = <<>> /\ passed = <<>>
    /\ created = EmptyDict /\ built = EmptyDict
    /\ last = [op |-> "init", s |-> 0]
    /\ IdleGrouping /\ IdleKeys /\ IdleValidation /\ IdlePipeline

\* summary = manager.sync_to_ws(ks)
SyncToWs(ks) ==
    /\ Len(summaries) < MaxSummaries
    /\ summaries' = Append(summaries, sync_to_ws(ks, _cache))
    /\ passed' = Append(passed, FALSE)
    /\ last' = [op |-> "sync_to_ws", s |-> Len(summaries) + 1, keys |-> ks]
    /\ UNCHANGED <<_cache, _next_id, created, built, groupingVars, keyVars, validationVars, pipelineVars>>

\* created = manager.create_missing_in_prod(summaries[s])
CreateMissingInProd(s) ==
    LET m == create_missing_in_prod(_cache, _next_id, summaries[s]) IN
    /\ _cache' = m.cache
    /\ _next_id' = m.next_id
    /\ summaries' = [summaries EXCEPT ![s] = m.summary]
    /\ created' = m.created
    /\ passed' = [passed EXCEPT ![s] = TRUE]
    /\ last' = [op |-> "create_missing_in_prod", s |-> s]
    /\ UNCHANGED <<built, groupingVars, keyVars, validationVars, pipelineVars>>

\* built = manager.build_cache(summaries[s])
BuildCache(s) ==
    /\ built' = build_cache(_cache, summaries[s])
    /\ last' = [op |-> "build_cache", s |-> s]
    /\ UNCHANGED <<_cache, _next_id, summaries, passed, created, groupingVars, keyVars,
                   validationVars, pipelineVars>>

NextCenters ==
    \/ \E ks \in SUBSET CenterKeys : SyncToWs(ks)
    \/ \E s \in 1..Len(summaries) : CreateMissingInProd(s)
    \/ \E s \in 1..Len(summaries) : BuildCache(s)

SpecCenters == InitCenters /\ [][NextCenters]_vars

\* the ids a cache holds
Ids(cache) == {cache[k] : k \in DOMAIN cache}

\* C4: in the manager's cache no two keys share an id and the ids are 1, 2, 3, ...;
\* no call removes a key or changes its id, a key created later gets a larger id,
\* and a second create_missing_in_prod on a summary changes neither the cache nor
\* the summary's lists
C4_StableIds ==
    /\ [](/\ \A j, k \in DOMAIN _cache : _cache[j] = _cache[k] => j = k
          /\ Ids(_cache) = 1..Cardinality(DOMAIN _cache))
    /\ [][/\ \A k \in DOMAIN _cache : k \in DOMAIN _cache' /\ _cache'[k] = _cache[k]
          /\ \A k \in DOMAIN _cache' \ DOMAIN _cache : \A j \in DOMAIN _cache :
                _cache'[k] > _cache[j]
          /\ (last'.op = "create_missing_in_prod" /\ passed[last'.s]) =>
                /\ _cache' = _cache
                /\ summaries' = summaries]_vars

\* C4 witness: create_missing_in_prod ran on a summary it had been given before,
\* after a later summary had created a further key
C4_Witness ==
    /\ last.op = "create_missing_in_prod"
    /\ Len(summaries) = 2 /\ passed[1] /\ passed[2]
    /\ last.s = 1
    /\ Len(summaries[1].created_ws_ids) = 2
    /\ Len(summaries[2].created_ws_ids) = 1
    /\ Cardinality(DOMAIN _cache) = 3

\* ascending order of a list of strs
Ascending(ks) == \A i \in 1..(Len(ks) - 1) : StrLess(ks[i], ks[i + 1])

\* C5: sync_to_ws(keys) leaves the cache alone and returns a summary that accounts
\* for every key of keys exactly once: a cached key by its id in existing_ids, any
\* other key in missing_keys, nothing else in either, missing_keys ascending
C5_SyncPartitions ==
    /\ [](last.op = "sync_to_ws" =>
            LET summary == summaries[last.s] IN
            /\ Range(summary.missing_keys) = last.keys \ DOMAIN _cache
            /\ Range(summary.existing_ids) = {_cache[k] : k \in last.keys \cap DOMAIN _cache}
            /\ Len(summary.missing_keys) + Len(summary.existing_ids) = Cardinality(last.keys)
            /\ Ascending(summary.missing_keys)
            /\ summary.created_ws_ids = <<>> /\ summary.created_prod_ids = <<>>)
    /\ [][last'.op = "sync_to_ws" => _cache' = _cache /\ _next_id' = _next_id]_vars

\* C5 witness: a sync of three keys of which one is cached and two are missing
C5_Witness ==
    /\ last.op = "sync_to_ws"
    /\ last.keys = CenterKeys
    /\ Len(summaries[last.s].existing_ids) = 1
    /\ summaries[last.s].missing_keys = <<"DMR:MEM-1", "PROVIDER:UNKNOWN">>

\* C6: after create_missing_in_prod(summary) every key of summary.missing_keys has
\* its id in summary.created_ws_ids and in summary.created_prod_ids
C6_MissingKeysCreated ==
    last.op = "create_missing_in_prod" =>
        \A i \in 1..Len(summaries[last.s].missing_keys) :
            LET key == summaries[last.s].missing_keys[i] IN
            /\ key \in DOMAIN _cache
            /\ _cache[key] \in Range(summaries[last.s].created_ws_ids)
            /\ _cache[key] \in Range(summaries[last.s].created_prod_ids)

\* C7: build_cache(summary) returns the entries of the manager's cache whose id is
\* in existing_ids, created_ws_ids or created_prod_ids, every entry when the summary
\* holds no id, and changes neither the manager's cache nor the summary
C7_BuildCache ==
    /\ [](last.op = "build_cache" =>
            LET summary == summaries[last.s]
                union == Range(summary.existing_ids) \cup Range(summary.created_ws_ids)
                            \cup Range(summary.created_prod_ids)
            IN  /\ DOMAIN built = IF union = {} THEN DOMAIN _cache
                                 ELSE {k \in DOMAIN _cache : _cache[k] \in union}
                /\ \A k \in DOMAIN built : built[k] = _cache[k])
    /\ [][last'.op = "build_cache" =>
            _cache' = _cache /\ _next_id' = _next_id /\ summaries' = summaries]_vars

\* C7 witness: build_cache on a summary without ids, taken when its one missing key
\* had been created through another summary, returns the whole cache of two entries
C7_Witness ==
    /\ last.op = "build_cache"
    /\ summaries[last.s].missing_keys /= <<>>
    /\ summaries[last.s].existing_ids = <<>>
    /\ summaries[last.s].created_ws_ids = <<>>
    /\ Cardinality(DOMAIN _cache) = 2
    /\ built = _cache

----------------------------------------------------------------------------
(* The validation machine: one Validation instance checking the claim list of a run *)

\* the longest claim list validated
MaxValidated == 4

\* the most findings a Validation instance captures
MaxFindings == 2

\* an original claim, a void claim under a parent, and a void claim without a parent
\* that repeats the claim id of the second
ValidatedClaims ==
    {Claim("CLM-1", "PARENT-1", "OPEN", ORIGINAL, None, None, None, None),
     Claim("CLM-2", "PARENT-1", "CLOSED", VOID, None, None, None, None),
     Claim("CLM-2", "", "OPEN", VOID, None, None, None, None)}

\* the findings PaymentProcessor.validate_initial builds, handed on as extra findings
NoPlansFinding ==
    Finding("WARNING", "No benefit plans configured; using default sample scope.", 1, <<>>)
StageFinding ==
    Finding("CRITICAL", "Final run requires PaymentEvent.stage to be 'ready'.", 1, <<>>)
ExtraFindings == {<<>>, <<NoPlansFinding>>, <<StageFinding>>, <<NoPlansFinding, StageFinding>>}

\* RunMode, by member value
RunMode == {"dry-run", "final"}

InitValidation ==
    /\ claims_list \in SeqsUpTo(ValidatedClaims, MaxValidated)
    /\ _findings = <<>> /\ returned = <<>>
    /\ report = ValidationReport(<<>>, FALSE)
    /\ outcome = [op |-> "init"]
    /\ IdleGrouping /\ IdleKeys /\ IdleCenters /\ IdlePipeline

\* validation.validate_duplicates(claims_list)
ValidateDuplicates ==
    /\ Len(_findings) < MaxFindings
    /\ LET finding == validate_duplicates(claims_list) IN
        /\ _findings' = _capture(_findings, finding)
        /\ returned' = Append(returned, finding)
        /\ outcome' = [op |-> "validate_duplicates", result |-> Returns(finding)]
    /\ UNCHANGED <<claims_list, report, groupingVars, keyVars, centerVars, pipelineVars>>

\* validation.validate_void_linkages(claims_list)
ValidateVoidLinkages ==
    /\ Len(_findings) < MaxFindings
    /\ LET finding == validate_void_linkages(claims_list) IN
        /\ _findings' = _capture(_findings, finding)
        /\ returned' = Append(returned, finding)
        /\ outcome' = [op |-> "validate_void_linkages", result |-> Returns(finding)]
    /\ UNCHANGED <<claims_list, report, groupingVars, keyVars, centerVars, pipelineVars>>

\* report = validation.aggregate_findings(extra)
AggregateFindings(extra) ==
    /\ report' = aggregate_findings(_findings, extra)
    /\ outcome' = [op |-> "aggregate_findings", extra |-> extra, result |-> Returns(report')]
    /\ UNCHANGED <<claims_list, _findings, returned, groupingVars, keyVars, centerVars, pipelineVars>>

\* raise_if_blocking(report, mode)
RaiseIfBlocking(mode) ==
    /\ outcome' = [op |-> "raise_if_blocking", mode |-> mode,
                   result |-> raise_if_blocking(report, mode)]
    /\ UNCHANGED <<claims_list, _findings, returned, report, groupingVars, keyVars, centerVars, pipelineVars>>

NextValidation ==
    \/ ValidateDuplicates
    \/ ValidateVoidLinkages
    \/ \E extra \in ExtraFindings : AggregateFindings(extra)
    \/ \E mode \in RunMode : RaiseIfBlocking(mode)

SpecValidation == InitValidation /\ [][NextValidation]_vars

\* the claim ids of a claim list
ClaimIds(cs) == {cs[i].claim_id : i \in 1..Len(cs)}

\* C8: validate_duplicates returns INFO with count 0 on a list without a repeated
\* claim_id, and otherwise CRITICAL with count the number of occurrences beyond the
\* first of each claim_id
C8_Duplicates ==
    outcome.op = "validate_duplicates" =>
        LET finding == outcome.result.value
            repeats == Len(claims_list) - Cardinality(ClaimIds(claims_list))
        IN  /\ ~outcome.result.raised
            /\ finding.count = repeats
            /\ finding.severity = IF repeats = 0 THEN "INFO" ELSE "CRITICAL"

\* C8 witness: two claim ids, each occurring twice, give count 2
C8_Witness ==
    /\ outcome.op = "validate_duplicates"
    /\ Len(claims_list) = 4
    /\ Cardinality(ClaimIds(claims_list)) = 2
    /\ \E i, j \in 1..4 : i /= j /\ claims_list[i].claim_id = "CLM-1"
                          /\ claims_list[j].claim_id = "CLM-1"
    /\ outcome.result.value.count = 2
    /\ outcome.result.value.severity = "CRITICAL"

\* C9: the captured list is the findings the validate_* calls returned, in call
\* order, and only grows; aggregate_findings(extra) returns them followed by extra,
\* blocked iff one of the combined findings is CRITICAL, and leaves the captured
\* list unchanged
C9_Aggregate ==
    /\ [](/\ _findings = returned
          /\ outcome.op = "aggregate_findings" =>
                /\ report = outcome.result.value
                /\ report.findings = returned \o outcome.extra
                /\ report.blocked <=>
                      \E i \in 1..Len(report.findings) : report.findings[i].severity = "CRITICAL"
                /\ outcome.extra = <<>> =>
                      (report.blocked <=>
                          \E i \in 1..Len(returned) : returned[i].severity = "CRITICAL"))
    /\ [][/\ Len(_findings') >= Len(_findings)
          /\ SubSeq(_findings', 1, Len(_findings)) = _findings
          /\ outcome'.op = "aggregate_findings" => _findings' = _findings]_vars

\* C9 witness: a warning captured before a critical finding, aggregated with no
\* extra finding into a blocked report
C9_Witness ==
    /\ outcome.op = "aggregate_findings"
    /\ outcome.extra = <<>>
    /\ Len(_findings) = 2
    /\ _findings[1].severity = "WARNING"
    /\ _findings[2].severity = "CRITICAL"
    /\ report.blocked

\* C10: raise_if_blocking(report, mode) raises exactly when report.blocked; the
\* error's message holds "message (count)" of every CRITICAL finding and the message
\* of no other finding; the call changes nothing
C10_RaiseIfBlocking ==
    /\ [](outcome.op = "raise_if_blocking" =>
            /\ outcome.result.raised <=> report.blocked
            /\ outcome.result.raised =>
                /\ outcome.result.type = "RuntimeError"
                /\ \A i \in 1..Len(report.findings) :
                      LET f == report.findings[i] IN
                      IF f.severity = "CRITICAL"
                      THEN Contains(outcome.result.message,
                                    f.message \o " (" \o ToString(f.count) \o ")")
                      ELSE ~Contains(outcome.result.message, f.message))
    /\ [][outcome'.op = "raise_if_blocking" =>
            _findings' = _findings /\ report' = report]_vars

\* C10 witness: a report of a warning and two critical findings raised in a final run
C10_Witness ==
    /\ outcome.op = "raise_if_blocking"
    /\ outcome.mode = "final"
    /\ outcome.result.raised
    /\ Len(report.findings) >= 3
    /\ \E i \in 1..Len(report.findings) : report.findings[i].severity = "WARNING"
    /\ Cardinality({i \in 1..Len(report.findings) : report.findings[i].severity = "CRITICAL"}) = 2

----------------------------------------------------------------------------
(* ConfigLoader (data/config/config_loader.py)                             *)
(*                                                                         *)
(* A record looked up in the connection is a list of at most one mapping;  *)
(* a date is its distance in days from today.  The attributes the loaders  *)
(* attach with setattr (db_uri, interest_rules, funding_source,            *)
(* allowed_payment_centers) are read by nothing in a run and are left out. *)

\* date.today()
Today == 0

\* ConfigLoader._lookup(bucket, key)
_lookup(conn, bucket, key) ==
    IF bucket \in DOMAIN conn /\ key \in DOMAIN conn[bucket] THEN <<conn[bucket][key]>> ELSE <<>>

\* the fields of PaymentEvent without a default
PaymentEventRequired ==
    {"payment_event_id", "business_id", "inclusion_criteria_id", "funding_source_id",
     "due_date", "event_type", "stage", "run_mode"}

\* the fields of PaymentEvent with default_factory=list
PaymentEventDefaulted == {"allowed_plans", "allowed_payment_center_types"}

\* PaymentEvent.model_validate(record): the model, or pydantic's ValidationError
model_validate(record) ==
    IF PaymentEventRequired \subseteq DOMAIN record
    THEN Returns([f \in PaymentEventRequired \cup PaymentEventDefaulted |->
                    IF f \in DOMAIN record THEN record[f] ELSE <<>>])
    ELSE Raises("ValidationError", "PaymentEvent: Field required")

\* the record load_payment_event falls back to
DefaultPaymentEventRecord(payment_event_id) ==
    [payment_event_id |-> payment_event_id, business_id |-> "DEMO-BIZ",
     inclusion_criteria_id |-> "INC-DEFAULT", funding_source_id |-> "FUND-DEFAULT",
     due_date |-> Today, event_type |-> "SAMPLE", stage |-> "ready", run_mode |-> "dry-run",
     allowed_plans |-> <<"PLAN-A", "PLAN-B">>, allowed_payment_center_types |-> <<"PROVIDER">>]

\* ConfigLoader.load_payment_event
load_payment_event(conn, payment_event_id) ==
    LET found == _lookup(conn, "payment_events", payment_event_id)
        record == IF found = <<>> THEN DefaultPaymentEventRecord(payment_event_id) ELSE found[1]
    IN  model_validate(record)

\* ConfigLoader.load_inclusion_criteria: the PaymentEvent after the call
load_inclusion_criteria(event, conn) ==
    LET found == _lookup(conn, "inclusion_criteria", event.inclusion_criteria_id)
        record == IF found = <<>>
                  THEN [allowed_benefit_plans |->
                            Range(IF event.allowed_plans /= <<>> THEN event.allowed_plans
                                  ELSE <<"PLAN-A">>),
                        allowed_payment_centers |-> 1..3]
                  ELSE found[1]
    IN  IF record.allowed_benefit_plans /= {}
        THEN [event EXCEPT !.allowed_plans = SortedKeys(record.allowed_benefit_plans)]
        ELSE event

\* ConfigLoader.validate
validate(event) ==
    LET no_plans == event.allowed_plans = <<>>
        past_due == event.due_date < Today
        plans_error == "PaymentEvent must specify at least one allowed plan."
        due_error == "PaymentEvent due date cannot be in the past for sample runs."
    IN  IF no_plans /\ past_due THEN Raises("ValueError", plans_error \o " " \o due_error)
        ELSE IF no_plans THEN Raises("ValueError", plans_error)
        ELSE IF past_due THEN Raises("ValueError", due_error)
        ELSE Returns(None)

----------------------------------------------------------------------------
(* PaymentProcessor (core/payment_processor.py)                            *)
(*                                                                         *)
(* The sample amounts are whole numbers of currency units, so the float    *)
(* sums of the code are exact and amounts are integers here.  An optional  *)
(* datetime is a list of at most one clock reading.                        *)

\* initialize_stats counting one claim from the start
initialize_stats_OneClaim(payment_event_id, stage, t) ==
    [payment_event_id |-> payment_event_id, stage |-> stage, total_claims |-> 1,
     totals |-> [by_payment_center |-> EmptyDict, overall |-> 0],
     started_at |-> t, completed_at |-> <<>>, findings |-> ValidationReport(<<>>, FALSE)]

\* PaymentProcessor.initialize_stats, t being now_utc()
initialize_stats(payment_event_id, stage, t) ==
    [payment_event_id |-> payment_event_id, stage |-> stage, total_claims |-> 0,
     totals |-> [by_payment_center |-> EmptyDict, overall |-> 0],
     started_at |-> t, completed_at |-> <<>>, findings |-> ValidationReport(<<>>, FALSE)]

\* the PaymentEvent load_config builds when load_payment_event is not implemented
SamplePaymentEvent(payment_event_id) ==
    [payment_event_id |-> payment_event_id, business_id |-> "SAMPLE-BUSINESS",
     inclusion_criteria_id |-> "INC-001", funding_source_id |-> "FS-001",
     due_date |-> Today, event_type |-> "SAMPLE", stage |-> "ready", run_mode |-> "dry-run",
     allowed_plans |-> <<>>, allowed_payment_center_types |-> <<>>]

\* PaymentProcessor.load_config: the PaymentEvent, or the exception that leaves it.
\* The loader is ConfigLoader, or a stub each method of which raises NotImplementedError.
load_config(loader, conn, payment_event_id) ==
    IF loader = "stub" THEN Returns(SamplePaymentEvent(payment_event_id))
    ELSE LET loaded == load_payment_event(conn, payment_event_id) IN
         IF loaded.raised THEN loaded
         ELSE LET event == load_inclusion_criteria(loaded.value, conn)
                  checked == validate(event)
              IN  IF checked.raised THEN checked ELSE Returns(event)

\* str.lower() of each upper-case letter
LowerOfUpper ==
    [c \in {SubSeq(UpperCase, i, i) : i \in 1..Len(UpperCase)} |->
        LET i == CHOOSE i \in 1..Len(UpperCase) : SubSeq(UpperCase, i, i) = c
        IN  SubSeq(LowerCase, i, i)]

\* str.lower() of one character
LowerChar(c) == IF c \in DOMAIN LowerOfUpper THEN LowerOfUpper[c] ELSE c

\* str.lower()
RECURSIVE Lower(_)
Lower(str) ==
    IF str = "" THEN "" ELSE LowerChar(SubSeq(str, 1, 1)) \o Lower(SubSeq(str, 2, Len(str)))

\* validate_initial blocking on the stage in every mode
validate_initial_AnyMode(event, mode) ==
    LET blocked == Lower(Or(event.stage, "")) \notin {"ready", "final"} IN
    ValidationReport((IF event.allowed_plans = <<>> THEN <<NoPlansFinding>> ELSE <<>>)
                        \o (IF blocked THEN <<StageFinding>> ELSE <<>>),
                     blocked)

\* PaymentProcessor.validate_initial
validate_initial(event, mode) ==
    LET plans_findings == IF event.allowed_plans = <<>> THEN <<NoPlansFinding>> ELSE <<>>
        stage_name == Lower(Or(event.stage, ""))
        blocked == mode = "final" /\ stage_name \notin {"ready", "final"}
    IN  ValidationReport(plans_findings \o (IF blocked THEN <<StageFinding>> ELSE <<>>), blocked)

\* PaymentProcessor.process_payment_centers
process_payment_centers(event, ensure_create) ==
    LET center_types == IF event.allowed_payment_center_types /= <<>>
                        THEN event.allowed_payment_center_types ELSE <<"GENERAL">>
    IN  [centers |-> [idx \in 1..Len(center_types) |->
                        [payment_center_id |-> idx, center_type |-> center_types[idx],
                         created |-> ensure_create]],
         ensure_create |-> ensure_create]

\* list(PaymentProcessor.transform_claims(event))
transform_claims(event) ==
    LET plans == IF event.allowed_plans /= <<>> THEN event.allowed_plans ELSE <<"PLAN-SAMPLE">>
        base_amount == IF event.run_mode = "dry-run" THEN 100 ELSE 150
    IN  [idx \in 1..Len(plans) |->
            [claim_id |-> event.payment_event_id \o "-" \o ToString(idx),
             benefit_plan_id |-> plans[idx],
             projected_payment |-> base_amount + (idx - 1) * 10,
             payment_center_hint |-> idx]]

\* the loop of _apply_claim_metrics from the claim at list index idx on
RECURSIVE MetricsLoop(_, _, _, _)
MetricsLoop(totals, center_ids, cs, idx) ==
    IF idx >= Len(cs) THEN totals
    ELSE LET claim == cs[idx + 1]
             amount == IF "projected_payment" \in DOMAIN claim THEN claim.projected_payment ELSE 0
             center_id ==
                 IF "payment_center_hint" \in DOMAIN claim /\ claim.payment_center_hint \in DOMAIN totals
                 THEN claim.payment_center_hint
                 ELSE center_ids[(idx % Len(center_ids)) + 1]
         IN  MetricsLoop([totals EXCEPT ![center_id] = @ + amount], center_ids, cs, idx + 1)

\* sum(totals.values())
RECURSIVE SumValues(_)
SumValues(totals) ==
    IF DOMAIN totals = {} THEN 0
    ELSE LET k == CHOOSE k \in DOMAIN totals : TRUE
         IN  totals[k] + SumValues([j \in DOMAIN totals \ {k} |-> totals[j]])

\* _apply_claim_metrics leaving out the claims beyond the number of centers
_apply_claim_metrics_HintedOnly(st, cs, summary) ==
    LET given == IF "centers" \in DOMAIN summary THEN summary.centers ELSE <<>>
        centers == IF given /= <<>> THEN given ELSE <<[payment_center_id |-> 0]>>
        center_ids == [i \in 1..Len(centers) |-> centers[i].payment_center_id]
        hinted == SubSeq(cs, 1, IF Len(cs) < Len(centers) THEN Len(cs) ELSE Len(centers))
        totals == MetricsLoop([center_id \in Range(center_ids) |-> 0], center_ids, hinted, 0)
    IN  [st EXCEPT !.total_claims = Len(cs),
                   !.totals = [by_payment_center |-> totals, overall |-> SumValues(totals)]]

\* PaymentProcessor._apply_claim_metrics: the stats after the call
_apply_claim_metrics(st, cs, summary) ==
    LET given == IF "centers" \in DOMAIN summary THEN summary.centers ELSE <<>>
        centers == IF given /= <<>> THEN given ELSE <<[payment_center_id |-> 0]>>
        center_ids == [i \in 1..Len(centers) |-> centers[i].payment_center_id]
        totals == MetricsLoop([center_id \in Range(center_ids) |-> 0], center_ids, cs, 0)
    IN  [st EXCEPT !.total_claims = Len(cs),
                   !.totals = [by_payment_center |-> totals, overall |-> SumValues(totals)]]

\* PaymentProcessor.finalize_stats, t being now_utc(): the stats returned
finalize_stats(st, rep, t) ==
    LET stamped == [st EXCEPT !.findings = rep, !.completed_at = <<t>>] IN
    IF DOMAIN stamped.totals.by_payment_center = {}
    THEN [stamped EXCEPT !.totals = [by_payment_center |-> EmptyDict, overall |-> 0]]
    ELSE stamped

\* ClaimRepository.backup(db_uri): the _last_backup it leaves, or the exception it raises
backup(raises, db_uri) ==
    IF raises = None THEN Returns("claims-backup::" \o db_uri) ELSE Raises(raises, "backup")

\* PaymentProcessor._safe_backup: what leaves the call
_safe_backup(raises, db_uri) ==
    LET made == backup(raises, db_uri) IN
    IF made.raised /\ made.type \notin {"NotImplementedError", "AttributeError"} THEN made
    ELSE Returns(None)

\* the ensure_create flag of a run method, always set
EnsureCreate_Always(mode) == TRUE

\* the ensure_create flag run_dry_run and run_final_run pass to process_payment_centers
EnsureCreate(mode) == mode = "final"

----------------------------------------------------------------------------
(* The run machine: main dispatching to run_dry_run or run_final_run, one  *)
(* helper call per step.                                                   *)

MaxPlans == 2
MaxCenterTypes == 2

\* args.payment_event_id and settings.db_uri of the run
PaymentEventId == "PE-1"
DbUri == "DB-1"

\* the stages of the stored PaymentEvents
Stages == {"ready", "READY", "final", "draft"}

\* the stored PaymentEvent records: complete ones, and one lacking its stage
PaymentEventRecords ==
    {[DefaultPaymentEventRecord(PaymentEventId) EXCEPT
        !.stage = s, !.due_date = d, !.allowed_plans = p, !.allowed_payment_center_types = t] :
        s \in Stages, d \in {Today - 1, Today},
        p \in SeqsUpTo({"PLAN-B", "PLAN-A"}, MaxPlans),
        t \in SeqsUpTo({"PROVIDER"}, MaxCenterTypes)}
    \cup {[payment_event_id |-> PaymentEventId, business_id |-> "DEMO-BIZ"]}

\* the stored InclusionCriteria records
InclusionRecords ==
    {[allowed_benefit_plans |-> b, allowed_payment_centers |-> {}] : b \in {{}, {"PLAN-B"}}}

\* the datastore mappings: each bucket holds the record of the run or nothing
Connections ==
    {[payment_events |-> e, inclusion_criteria |-> i] :
        e \in {EmptyDict} \cup {(PaymentEventId :> r) : r \in PaymentEventRecords},
        i \in {EmptyDict} \cup {("INC-DEFAULT" :> r) : r \in InclusionRecords}}

\* what claim_repo.backup may raise; None when it returns
BackupErrors == {None, "NotImplementedError", "AttributeError", "RepositoryError"}

\* the variables of the other machines
outsideRun ==
    <<groupingVars, keyVars, centerVars, validationVars, fanVars, lineVars, downstreamVars>>

InitRun ==
    /\ run_mode \in RunMode
    /\ _config_loader \in {"ConfigLoader", "stub"}
    /\ connection \in IF _config_loader = "stub" THEN {EmptyDict} ELSE Connections
    /\ backup_raises \in BackupErrors
    /\ _last_backup = None /\ now = 0 /\ phase = "Start"
    /\ payment_event = <<>> /\ stats = <<>> /\ initial_report = ValidationReport(<<>>, FALSE)
    /\ center_summary = <<>> /\ run_claims = <<>> /\ trace = <<>>
    /\ run_result = <<>> /\ main_result = <<>>
    /\ IdleGrouping /\ IdleKeys /\ IdleCenters /\ IdleValidation /\ IdleFan /\ IdleLines
    /\ IdleDownstream

\* the run methods calling validate_initial straight after load_config in both modes
CallSite_ValidateFirst(helper, mode, blocked) ==
    CASE helper = "initialize_stats" -> {"Start"}
      [] helper = "load_config" -> {"Init"}
      [] helper = "_safe_backup" -> IF mode = "final" THEN {"ConfigLoaded"} ELSE {}
      [] helper = "validate_initial" -> {"ConfigLoaded", "BackedUp"}
      [] helper = "process_payment_centers" -> IF blocked THEN {} ELSE {"Validated"}
      [] helper = "transform_claims" -> {"CentersResolved"}
      [] helper = "_apply_claim_metrics" -> {"ClaimsTransformed"}
      [] helper = "finalize_stats" -> IF blocked THEN {"Validated"} ELSE {"MetricsApplied"}

\* the positions at which run_dry_run (mode "dry-run") and run_final_run (mode "final")
\* call each helper, blocked being report.blocked
CallSite(helper, mode, blocked) ==
    CASE helper = "initialize_stats" -> {"Start"}
      [] helper = "load_config" -> {"Init"}
      [] helper = "_safe_backup" -> IF mode = "final" THEN {"ConfigLoaded"} ELSE {}
      [] helper = "validate_initial" -> IF mode = "final" THEN {"BackedUp"} ELSE {"ConfigLoaded"}
      [] helper = "process_payment_centers" -> IF blocked THEN {} ELSE {"Validated"}
      [] helper = "transform_claims" -> {"CentersResolved"}
      [] helper = "_apply_claim_metrics" -> {"ClaimsTransformed"}
      [] helper = "finalize_stats" -> IF blocked THEN {"Validated"} ELSE {"MetricsApplied"}

\* the helper is the next call of the run
Calls(helper) == phase \in CallSite(helper, run_mode, initial_report.blocked)

\* stats = self.initialize_stats(payment_event_id, mode.value)
InitializeStats ==
    /\ Calls("initialize_stats")
    /\ stats' = initialize_stats(PaymentEventId, run_mode, now)
    /\ now' = now + 1
    /\ phase' = "Init"
    /\ trace' = Append(trace, "initialize_stats")
    /\ UNCHANGED <<run_mode, _config_loader, connection, backup_raises, _last_backup,
                   payment_event, initial_report, center_summary, run_claims, run_result,
                   main_result, outsideRun>>

\* payment_event = self.load_config(payment_event_id); payment_event.run_mode = mode.
\* The sample event of a stub loader reads the clock for its due date.
LoadConfig ==
    /\ Calls("load_config")
    /\ LET loaded == load_config(_config_loader, connection, PaymentEventId) IN
        /\ trace' = Append(trace, "load_config")
        /\ now' = IF _config_loader = "stub" THEN now + 1 ELSE now
        /\ IF loaded.raised
           THEN /\ phase' = "Raised"
                /\ run_result' = loaded
                /\ UNCHANGED payment_event
           ELSE /\ phase' = "ConfigLoaded"
                /\ payment_event' = [loaded.value EXCEPT !.run_mode = run_mode]
                /\ UNCHANGED run_result
    /\ UNCHANGED <<run_mode, _config_loader, connection, backup_raises, _last_backup, stats,
                   initial_report, center_summary, run_claims, main_result, outsideRun>>

\* self._safe_backup(), of run_final_run only
SafeBackup ==
    /\ Calls("_safe_backup")
    /\ LET made == backup(backup_raises, DbUri)
           left == _safe_backup(backup_raises, DbUri)
       IN  /\ trace' = Append(trace, "_safe_backup")
           /\ _last_backup' = IF made.raised THEN _last_backup ELSE made.value
           /\ IF left.raised
              THEN phase' = "Raised" /\ run_result' = left
              ELSE phase' = "BackedUp" /\ UNCHANGED run_result
    /\ UNCHANGED <<run_mode, _config_loader, connection, backup_raises, now, payment_event,
                   stats, initial_report, center_summary, run_claims, main_result, outsideRun>>

\* report = self.validate_initial(payment_event, mode)
ValidateInitial ==
    /\ Calls("validate_initial")
    /\ initial_report' = validate_initial(payment_event, run_mode)
    /\ phase' = "Validated"
    /\ trace' = Append(trace, "validate_initial")
    /\ UNCHANGED <<run_mode, _config_loader, connection, backup_raises, _last_backup, now,
                   payment_event, stats, center_summary, run_claims, run_result, main_result,
                   outsideRun>>

\* center_summary = self.process_payment_centers(payment_event, ensure_create=...)
ProcessPaymentCenters ==
    /\ Calls("process_payment_centers")
    /\ center_summary' = process_payment_centers(payment_event, EnsureCreate(run_mode))
    /\ phase' = "CentersResolved"
    /\ trace' = Append(trace, "process_payment_centers")
    /\ UNCHANGED <<run_mode, _config_loader, connection, backup_raises, _last_backup, now,
                   payment_event, stats, initial_report, run_claims, run_result, main_result,
                   outsideRun>>

\* claims = list(self.transform_claims(payment_event))
TransformClaims ==
    /\ Calls("transform_claims")
    /\ run_claims' = transform_claims(payment_event)
    /\ phase' = "ClaimsTransformed"
    /\ trace' = Append(trace, "transform_claims")
    /\ UNCHANGED <<run_mode, _config_loader, connection, backup_raises, _last_backup, now,
                   payment_event, stats, initial_report, center_summary, run_result,
                   main_result, outsideRun>>

\* self._apply_claim_metrics(stats, claims, center_summary)
ApplyClaimMetrics ==
    /\ Calls("_apply_claim_metrics")
    /\ stats' = _apply_claim_metrics(stats, run_claims, center_summary)
    /\ phase' = "MetricsApplied"
    /\ trace' = Append(trace, "_apply_claim_metrics")
    /\ UNCHANGED <<run_mode, _config_loader, connection, backup_raises, _last_backup, now,
                   payment_event, initial_report, center_summary, run_claims, run_result,
                   main_result, outsideRun>>

\* return self.finalize_stats(stats, report), after the metrics or on a blocked report
FinalizeStats ==
    /\ Calls("finalize_stats")
    /\ stats' = finalize_stats(stats, initial_report, now)
    /\ now' = now + 1
    /\ run_result' = Returns(stats')
    /\ phase' = "Finalized"
    /\ trace' = Append(trace, "finalize_stats")
    /\ UNCHANGED <<run_mode, _config_loader, connection, backup_raises, _last_backup,
                   payment_event, initial_report, center_summary, run_claims, main_result,
                   outsideRun>>

\* main after the run method returned: the finally clause, then return 0
MainReturns ==
    /\ phase = "Finalized"
    /\ main_result' = Returns(0)
    /\ phase' = "Exited"
    /\ UNCHANGED <<run_mode, _config_loader, connection, backup_raises, _last_backup, now,
                   payment_event, stats, initial_report, center_summary, run_claims, trace,
                   run_result, outsideRun>>

\* main after the run method raised: the finally clause, then the exception leaves main
MainPropagates ==
    /\ phase = "Raised"
    /\ main_result' = run_result
    /\ phase' = "Exited"
    /\ UNCHANGED <<run_mode, _config_loader, connection, backup_raises, _last_backup, now,
                   payment_event, stats, initial_report, center_summary, run_claims, trace,
                   run_result, outsideRun>>

NextRun ==
    \/ InitializeStats
    \/ LoadConfig
    \/ SafeBackup
    \/ ValidateInitial
    \/ ProcessPaymentCenters
    \/ TransformClaims
    \/ ApplyClaimMetrics
    \/ FinalizeStats
    \/ MainReturns
    \/ MainPropagates

SpecRun == InitRun /\ [][NextRun]_vars

\* validate_initial has returned in the current state
Validated == "validate_initial" \in Range(trace)

\* the report has a finding of severity CRITICAL
HasCritical(rep) == \E i \in 1..Len(rep.findings) : rep.findings[i].severity = "CRITICAL"

\* C11 as stated: in a final run validate_initial returns a blocked report holding a
\* CRITICAL finding exactly when payment_event.stage is not one of "ready" and "final"; in a
\* dry run the report is never blocked; in both modes blocked holds exactly when a
\* finding is CRITICAL.
C11_StageBlocks ==
    Validated =>
        /\ run_mode = "final" =>
              ((initial_report.blocked /\ HasCritical(initial_report))
                  <=> payment_event.stage \notin {"ready", "final"})
        /\ run_mode = "dry-run" => ~initial_report.blocked
        /\ initial_report.blocked <=> HasCritical(initial_report)

\* C11 amended: the stage is compared without regard to letter case, so a final run is
\* blocked, with a CRITICAL finding, exactly when the stage spells neither READY nor FINAL
\* in any casing; a dry run is never blocked; blocked holds exactly when a finding is
\* CRITICAL.
C11_StageBlocksAnyCase ==
    Validated =>
        /\ run_mode = "final" =>
              ((initial_report.blocked /\ HasCritical(initial_report))
                  <=> Upper(payment_event.stage) \notin {"READY", "FINAL"})
        /\ run_mode = "dry-run" => ~initial_report.blocked
        /\ initial_report.blocked <=> HasCritical(initial_report)

\* C11 witness: a final run on a PaymentEvent in stage "draft" has been validated and is
\* blocked by the one CRITICAL finding
C11_Witness ==
    /\ Validated
    /\ run_mode = "final"
    /\ payment_event.stage = "draft"
    /\ initial_report = ValidationReport(<<StageFinding>>, TRUE)

\* the helpers a run skips when its initial report is blocked
ClaimProcessing == {"process_payment_centers", "transform_claims", "_apply_claim_metrics"}

\* C12: once validate_initial has returned a blocked report the run does not raise: it
\* invokes neither PaymentCenter resolution nor claim transformation nor the metrics, its
\* next step is finalize_stats, it returns the finalized stats carrying the blocking report
\* with total_claims = 0 and empty totals, and main then returns exit code 0.
C12_BlockedRunReturns ==
    (Validated /\ initial_report.blocked) =>
        /\ phase \in {"Validated", "Finalized", "Exited"}
        /\ Range(trace) \cap ClaimProcessing = {}
        /\ center_summary = <<>> /\ run_claims = <<>>
        /\ phase = "Validated" => ENABLED FinalizeStats
        /\ phase \in {"Finalized", "Exited"} =>
            /\ ~run_result.raised
            /\ run_result.value = stats
            /\ stats.findings = initial_report
            /\ stats.completed_at /= <<>>
            /\ stats.total_claims = 0
            /\ stats.totals = [by_payment_center |-> EmptyDict, overall |-> 0]
        /\ phase = "Finalized" => ENABLED MainReturns
        /\ phase = "Exited" => main_result = Returns(0)

\* C12 witness: main has returned 0 from a final run that was blocked on its stage
C12_Witness ==
    /\ phase = "Exited"
    /\ run_mode = "final"
    /\ initial_report.blocked
    /\ main_result = Returns(0)
    /\ stats.findings.blocked

\* process_payment_centers has returned in the current state
CentersResolved == "process_payment_centers" \in Range(trace)

\* C13: a dry run never calls _safe_backup, leaves the repository without a backup, and
\* resolves its PaymentCenters with ensure_create = false, none of them created; a final
\* run has called _safe_backup before it validates and resolves its PaymentCenters with
\* ensure_create = true.
C13_DryRunWritesNothing ==
    /\ run_mode = "dry-run" =>
        /\ "_safe_backup" \notin Range(trace)
        /\ _last_backup = None
        /\ CentersResolved =>
            /\ center_summary.ensure_create = FALSE
            /\ \A i \in 1..Len(center_summary.centers) : ~center_summary.centers[i].created
    /\ run_mode = "final" =>
        /\ Validated => "_safe_backup" \in Range(trace)
        /\ CentersResolved =>
            /\ center_summary.ensure_create = TRUE
            /\ \A i \in 1..Len(center_summary.centers) : center_summary.centers[i].created

\* C13 witness: a dry run has gone through to its end with two PaymentCenters resolved,
\* over a repository whose backup would have failed
C13_Witness ==
    /\ run_mode = "dry-run"
    /\ phase = "Exited"
    /\ CentersResolved
    /\ Len(center_summary.centers) = 2
    /\ backup_raises = "RepositoryError"

\* the helper calls of a run that is not blocked, and of a blocked one, in the order the
\* states Init .. Finalized prescribe; a final run backs up after its configuration is loaded
FullOrder(mode) ==
    <<"initialize_stats", "load_config">>
        \o (IF mode = "final" THEN <<"_safe_backup">> ELSE <<>>)
        \o <<"validate_initial", "process_payment_centers", "transform_claims",
             "_apply_claim_metrics", "finalize_stats">>
BlockedOrder(mode) ==
    <<"initialize_stats", "load_config">>
        \o (IF mode = "final" THEN <<"_safe_backup">> ELSE <<>>)
        \o <<"validate_initial", "finalize_stats">>

\* s is an initial part of t
IsPrefix(s, t) == Len(s) <= Len(t) /\ SubSeq(t, 1, Len(s)) = s

\* the state each helper leaves the run in
StateAfter ==
    [h \in Range(FullOrder("final")) |->
        CASE h = "initialize_stats" -> "Init"
          [] h = "load_config" -> "ConfigLoaded"
          [] h = "_safe_backup" -> "BackedUp"
          [] h = "validate_initial" -> "Validated"
          [] h = "process_payment_centers" -> "CentersResolved"
          [] h = "transform_claims" -> "ClaimsTransformed"
          [] h = "_apply_claim_metrics" -> "MetricsApplied"
          [] h = "finalize_stats" -> "Finalized"]

C15_BackupFailureSwallowed ==
    (run_mode = "final" /\ backup_raises /= None /\ "_safe_backup" \in Range(trace)) =>
        /\ phase /= "Raised"
        /\ phase = "BackedUp" => ENABLED ValidateInitial
        /\ phase = "Exited" => ~run_result.raised /\ run_result.value = stats

----------------------------------------------------------------------------
(* The stats machine: _apply_claim_metrics and finalize_stats called on    *)
(* the stats of a run with the claim list and the center summary the       *)
(* claim and PaymentCenter steps hand over.                                *)

MaxMetricClaims == 2

\* claim mappings as transform_claims yields them, and one without amount and hint
MetricClaims ==
    {[claim_id |-> PaymentEventId \o "-" \o ToString(h), benefit_plan_id |-> "PLAN-A",
      projected_payment |-> a, payment_center_hint |-> h] : h \in 1..3, a \in {100, 150}}
    \cup {[claim_id |-> PaymentEventId \o "-0", benefit_plan_id |-> "PLAN-A"]}

\* center summaries: those of process_payment_centers, one without centers, and a
\* summary that is not a dict
CenterSummaries ==
    {process_payment_centers(
        [SamplePaymentEvent(PaymentEventId) EXCEPT !.allowed_payment_center_types = t], c) :
        t \in SeqsUpTo({"PROVIDER"}, MaxCenterTypes), c \in BOOLEAN}
    \cup {[centers |-> <<>>, ensure_create |-> FALSE], <<>>}

\* the reports validate_initial can return
InitialReports == {ValidationReport(f, HasCritical(ValidationReport(f, FALSE))) : f \in ExtraFindings}

InitStats ==
    /\ run_mode \in RunMode
    /\ stats = initialize_stats(PaymentEventId, run_mode, 0)
    /\ now = 1
    /\ run_claims \in SeqsUpTo(MetricClaims, MaxMetricClaims)
    /\ center_summary \in CenterSummaries
    /\ initial_report \in InitialReports
    /\ trace = <<>> /\ phase = "Idle"
    /\ _config_loader = "ConfigLoader" /\ connection = EmptyDict
    /\ backup_raises = None /\ _last_backup = None
    /\ payment_event = <<>> /\ run_result = <<>> /\ main_result = <<>>
    /\ IdleGrouping /\ IdleKeys /\ IdleCenters /\ IdleValidation /\ IdleFan /\ IdleLines
    /\ IdleDownstream

\* processor._apply_claim_metrics(stats, run_claims, center_summary)
CallApplyClaimMetrics ==
    /\ trace = <<>>
    /\ stats' = _apply_claim_metrics(stats, run_claims, center_summary)
    /\ trace' = Append(trace, "_apply_claim_metrics")
    /\ UNCHANGED <<run_mode, _config_loader, connection, backup_raises, _last_backup, now,
                   phase, payment_event, initial_report, center_summary, run_claims,
                   run_result, main_result, outsideRun>>

\* processor.finalize_stats(stats, initial_report)
CallFinalizeStats ==
    /\ "finalize_stats" \notin Range(trace)
    /\ stats' = finalize_stats(stats, initial_report, now)
    /\ now' = now + 1
    /\ trace' = Append(trace, "finalize_stats")
    /\ UNCHANGED <<run_mode, _config_loader, connection, backup_raises, _last_backup,
                   phase, payment_event, initial_report, center_summary, run_claims,
                   run_result, main_result, outsideRun>>

NextStats == CallApplyClaimMetrics \/ CallFinalizeStats

SpecStats == InitStats /\ [][NextStats]_vars

C17_ConfigFailureIsConfigurationError ==
    (trace /= <<>> /\ trace[Len(trace)] = "load_config" /\ phase \in {"Raised", "Exited"}) =>
        /\ run_result.raised
        /\ run_result.type = "ConfigurationError"
        /\ Range(trace) \cap ClaimProcessing = {}
        /\ phase = "Exited" => main_result = run_result

----------------------------------------------------------------------------
(* Fan-out helpers (processing/parallel/multiprocessing.py and             *)
(* multithreading.py).  executor.map submits one task per item, in item    *)
(* order, to a pool of worker_count workers that take the tasks from a     *)
(* FIFO work queue and finish them in any order; its result iterator       *)
(* yields the results of the futures one by one, and raises the exception  *)
(* of the first future that holds one, cancelling the futures still queued.*)

MaxItems == 3
MaxWorkers == 2

\* the helpers that run _execute_parallel on a process pool, and those on a thread pool
ProcessHelpers == {"run_pc_level", "run_claim_batch_level", "run_service_line_level"}
ThreadHelpers == {"thread_map", "thread_batch"}

\* the items handed to the helpers: batches of numbers, one of them empty
Batches == {<<1>>, <<1, 2>>, <<>>}

\* the total of a batch
RECURSIVE fn(_)
fn(batch) == IF batch = <<>> THEN 0 ELSE Head(batch) + fn(Tail(batch))

\* the task function of the calls applied to an item: the total of the batch, and a
\* ValueError for an empty batch
call_fn(batch) ==
    IF batch = <<>> THEN Raises("ValueError", "empty batch") ELSE Returns(fn(batch))

\* worker_count = max(1, workers)
worker_count(w) == IF w > 1 THEN w ELSE 1

\* the result iterator yielding the futures as they complete
NextFuture_AsCompleted(out, done) == IF Len(done) > Len(out) THEN done[Len(out) + 1] ELSE 0

\* the index of the future whose result the result iterator of executor.map yields next:
\* the futures are taken in submission order
NextFuture(out, done) == Len(out) + 1

\* the helper catches the exception of a failed pool and runs the items itself
CatchesPoolFailure(h) == h \in ProcessHelpers

\* the first item fn raises for, Len(its) + 1 when there is none
FirstFailing(its) ==
    IF \E i \in 1..Len(its) : call_fn(its[i]).raised
    THEN CHOOSE i \in 1..Len(its) :
            call_fn(its[i]).raised /\ \A j \in 1..(i - 1) : ~call_fn(its[j]).raised
    ELSE Len(its) + 1

\* [fn(item) for item in items_list]: the list, or the exception of the first item fn
\* raises for
sequential(its) ==
    IF FirstFailing(its) <= Len(its) THEN call_fn(its[FirstFailing(its)])
    ELSE Returns([i \in 1..Len(its) |-> call_fn(its[i]).value])

\* the tasks a worker is running
Running == {i \in 1..Len(futures) : futures[i].state = "running"}

\* the variables of the other machines
outsideFan ==
    <<groupingVars, keyVars, centerVars, validationVars, runVars, lineVars, downstreamVars>>

InitFan ==
    /\ fan_helper \in ProcessHelpers \cup ThreadHelpers
    /\ items \in SeqsUpTo(Batches, MaxItems)
    /\ workers \in (-1)..MaxWorkers
    /\ pool_error \in {None, IF fan_helper \in ProcessHelpers THEN "PicklingError" ELSE "RuntimeError"}
    /\ futures = <<>> /\ completed = <<>> /\ output = <<>>
    /\ runs = [i \in 1..Len(items) |-> 0]
    /\ pool_failed = FALSE /\ fan_phase = "called" /\ fan_result = <<>>
    /\ IdleGrouping /\ IdleKeys /\ IdleCenters /\ IdleValidation /\ IdleRun /\ IdleLines
    /\ IdleDownstream

\* the call up to executor.map: an empty input returns [], else every item is submitted
Submit ==
    /\ fan_phase = "called"
    /\ IF items = <<>>
       THEN /\ fan_phase' = "returned"
            /\ fan_result' = Returns(<<>>)
            /\ UNCHANGED futures
       ELSE /\ fan_phase' = "pool"
            /\ futures' = [i \in 1..Len(items) |-> [state |-> "queued", result |-> <<>>]]
            /\ UNCHANGED fan_result
    /\ UNCHANGED <<fan_helper, items, workers, pool_error, completed, runs, output,
                   pool_failed, outsideFan>>

\* a free worker takes the oldest queued task and applies fn to its item
StartTask(i) ==
    /\ fan_phase = "pool"
    /\ futures[i].state = "queued"
    /\ \A j \in 1..(i - 1) : futures[j].state /= "queued"
    /\ Cardinality(Running) < worker_count(workers)
    /\ futures' = [futures EXCEPT ![i].state = "running"]
    /\ runs' = [runs EXCEPT ![i] = @ + 1]
    /\ UNCHANGED <<fan_helper, items, workers, pool_error, completed, output, pool_failed,
                   fan_phase, fan_result, outsideFan>>

\* a worker finishes its task: the future holds fn(item) or the exception fn raised
FinishTask(i) ==
    /\ fan_phase \in {"pool", "leaving"}
    /\ futures[i].state = "running"
    /\ futures' = [futures EXCEPT ![i] = [state |-> "done", result |-> <<call_fn(items[i])>>]]
    /\ completed' = Append(completed, i)
    /\ UNCHANGED <<fan_helper, items, workers, pool_error, runs, output, pool_failed,
                   fan_phase, fan_result, outsideFan>>

\* the list built from executor.map takes the next result once its future is done; a
\* future that holds an exception ends the iteration: the queued futures are cancelled
\* and the exception leaves the with block, which waits for the running tasks
Collect ==
    /\ fan_phase = "pool"
    /\ Len(output) < Len(items)
    /\ LET i == NextFuture(output, completed) IN
        /\ i \in 1..Len(items)
        /\ futures[i].state = "done"
        /\ IF futures[i].result[1].raised
           THEN /\ fan_phase' = "leaving"
                /\ futures' = [j \in 1..Len(futures) |->
                                  IF futures[j].state = "queued"
                                  THEN [futures[j] EXCEPT !.state = "cancelled"]
                                  ELSE futures[j]]
                /\ UNCHANGED output
           ELSE /\ output' = Append(output, futures[i].result[1].value)
                /\ UNCHANGED <<futures, fan_phase>>
    /\ UNCHANGED <<fan_helper, items, workers, pool_error, completed, runs, pool_failed,
                   fan_result, outsideFan>>

\* the executor has shut down with the exception of a task on its way out:
\* _execute_parallel catches it as it catches any Exception, thread_map and thread_batch
\* let it leave the call
TaskErrorLeaves ==
    /\ fan_phase = "leaving"
    /\ Running = {}
    /\ IF CatchesPoolFailure(fan_helper)
       THEN fan_phase' = "fallback" /\ UNCHANGED fan_result
       ELSE /\ fan_phase' = "raised"
            /\ fan_result' = futures[NextFuture(output, completed)].result[1]
    /\ UNCHANGED <<fan_helper, items, workers, pool_error, futures, completed, runs, output,
                   pool_failed, outsideFan>>

\* every result is collected: the executor shuts down and the helper returns the list
ReturnResults ==
    /\ fan_phase = "pool"
    /\ Len(output) = Len(items)
    /\ Running = {}
    /\ fan_phase' = "returned"
    /\ fan_result' = Returns(output)
    /\ UNCHANGED <<fan_helper, items, workers, pool_error, futures, completed, runs, output,
                   pool_failed, outsideFan>>

\* the pool fails before the list is complete: _execute_parallel catches the exception,
\* thread_map and thread_batch let it leave the call
PoolFails ==
    /\ fan_phase = "pool"
    /\ pool_error /= None
    /\ Len(output) < Len(items)
    /\ pool_failed' = TRUE
    /\ IF CatchesPoolFailure(fan_helper)
       THEN fan_phase' = "fallback" /\ UNCHANGED fan_result
       ELSE fan_phase' = "raised" /\ fan_result' = Raises(pool_error, "worker pool failed")
    /\ UNCHANGED <<fan_helper, items, workers, pool_error, futures, completed, runs, output,
                   outsideFan>>

\* return [fn(item) for item in items_list]: fn is applied to the items in order, up to
\* the first it raises for
Fallback ==
    /\ fan_phase = "fallback"
    /\ runs' = [i \in 1..Len(items) |-> IF i <= FirstFailing(items) THEN runs[i] + 1 ELSE runs[i]]
    /\ fan_result' = sequential(items)
    /\ IF fan_result'.raised
       THEN fan_phase' = "raised" /\ UNCHANGED output
       ELSE fan_phase' = "returned" /\ output' = fan_result'.value
    /\ UNCHANGED <<fan_helper, items, workers, pool_error, futures, completed, pool_failed,
                   outsideFan>>

NextFan ==
    \/ Submit
    \/ \E i \in 1..Len(futures) : StartTask(i)
    \/ \E i \in 1..Len(futures) : FinishTask(i)
    \/ Collect
    \/ TaskErrorLeaves
    \/ ReturnResults
    \/ PoolFails
    \/ Fallback

SpecFan == InitFan /\ [][NextFan]_vars

\* C18: a fan-out helper that returns returns the list of fn(item i) in item order, one
\* result per item and [] for an empty input, whatever the order the tasks finished in;
\* until then the results collected are an initial part of that list; workers below 1
\* count as one worker: never more tasks run at once than max(1, workers), and a queued
\* task can start whenever none is running.
C18_SubmissionOrder ==
    /\ fan_phase = "returned" =>
        /\ ~fan_result.raised
        /\ Len(fan_result.value) = Len(items)
        /\ \A i \in 1..Len(items) : fan_result.value[i] = fn(items[i])
    /\ fan_phase = "pool" =>
        /\ Len(output) <= Len(items)
        /\ \A i \in 1..Len(output) : output[i] = fn(items[i])
        /\ Cardinality(Running) <= (IF workers < 1 THEN 1 ELSE workers)
        /\ (Running = {} /\ \E i \in 1..Len(futures) : futures[i].state = "queued")
              => ENABLED (\E i \in 1..Len(futures) : StartTask(i))

\* C18 witness: run_claim_batch_level returned the results of three batches in item order
\* from a pool of two workers in which the second task finished first
C18_Witness ==
    /\ fan_helper = "run_claim_batch_level"
    /\ fan_phase = "returned"
    /\ ~pool_failed
    /\ workers = 2
    /\ items = << <<1>>, <<1, 2>>, <<1>> >>
    /\ completed = <<2, 1, 3>>
    /\ fan_result.value = <<1, 3, 1>>

\* C19: a fan-out call whose worker pool failed does not raise: it runs the same items
\* sequentially and returns the list the parallel path returns, fn(item i) in item order
\* (fn raising for none of the items).
C19_FallbackIdentical ==
    (pool_failed /\ FirstFailing(items) > Len(items)) =>
        /\ fan_phase \in {"fallback", "returned"}
        /\ fan_phase = "fallback" => ENABLED Fallback
        /\ fan_phase = "returned" => fan_result = Returns([i \in 1..Len(items) |-> fn(items[i])])

\* C28: within one fan-out call fn is applied to each input item at most once, also when
\* the call fails: if fn raises for some item, the call raises and returns no list, and
\* no item has been processed twice.
C28_AtMostOnce ==
    /\ \A i \in 1..Len(items) : runs[i] <= 1
    /\ (FirstFailing(items) <= Len(items) /\ fan_phase \in {"returned", "raised"}) =>
          /\ fan_phase = "raised"
          /\ fan_result.raised

----------------------------------------------------------------------------
(* ServiceLineProcessor.compute_service_line (core/service_line_processor.py) *)
(*                                                                         *)
(* A float is counted in thousandths.  The amounts drawn are multiples of  *)
(* 0.25, the quantities whole and the factors multiples of 0.5, so every   *)
(* product and every half is exact in binary floating point and            *)
(* round(x, 2) rounds the exact value, a tie going to the even cent.       *)

MaxQuantity == 2

\* 1.0
Thousand == 1000

\* a * b on floats
Mul(a, b) == (a * b) \div Thousand

\* round(x, 2)
Round2(x) ==
    LET cents == x \div 10
        rest == x % 10
    IN  10 * (IF rest < 5 THEN cents
              ELSE IF rest > 5 THEN cents + 1
              ELSE IF cents % 2 = 0 THEN cents ELSE cents + 1)

\* max(a, b) and min(a, b)
Max(a, b) == IF a >= b THEN a ELSE b
Min(a, b) == IF a <= b THEN a ELSE b

\* the decimal digits, each at the place of its value plus one
Digits == "0123456789"

\* the str is a run of digits, which float() parses
IsNumber(str) ==
    /\ str /= ""
    /\ \A i \in 1..Len(str) : \E d \in 1..Len(Digits) : SubSeq(str, i, i) = SubSeq(Digits, d, d)

\* float(str) of a run of digits
RECURSIVE ToFloat(_)
ToFloat(str) ==
    IF str = "" THEN 0
    ELSE LET n == Len(str)
             d == CHOOSE d \in 1..Len(Digits) : SubSeq(str, n, n) = SubSeq(Digits, d, d)
         IN  10 * ToFloat(SubSeq(str, 1, n - 1)) + (d - 1) * Thousand

\* ServiceLinePayment(service_line=..., calculated_amount=..., offsets_applied=...,
\* metadata=...): metadata is Dict[str, float], so each str value is parsed as a float
\* and a value that is no number fails the validation of the model
ServiceLinePayment(line, calculated_amount, offsets_applied, metadata) ==
    IF \A k \in DOMAIN metadata : IsNumber(metadata[k])
    THEN Returns([service_line |-> line, calculated_amount |-> calculated_amount,
                  offsets_applied |-> offsets_applied,
                  metadata |-> [k \in DOMAIN metadata |-> ToFloat(metadata[k])]])
    ELSE Raises("ValidationError", "metadata: Input should be a valid number")

\* ServiceLineProcessor.compute_service_line: the payment returned or the exception raised
compute_service_line(line, event_id, ctx) ==
    LET base_amount == Mul(line.allowed_amount, line.quantity)
        adjustment == IF "adjustment_factor" \in DOMAIN ctx.settings
                      THEN ctx.settings["adjustment_factor"] ELSE Thousand
        calculated_amount == Round2(Mul(base_amount, adjustment))
        previous_balance == Max(ctx.over_under.previous_balance, 0)
        offsets == Min(previous_balance, Mul(calculated_amount, Thousand \div 2))
    IN  ServiceLinePayment(line, calculated_amount, Round2(offsets),
                           [payment_event_id |-> event_id, source |-> ctx.payment_event_id])

\* the service lines of the calls
ServiceLines ==
    {[service_code |-> "99213", charge_amount |-> 150 * Thousand, allowed_amount |-> a,
      quantity |-> q * Thousand] : a \in {0, 250, 750, 100 * Thousand}, q \in 1..MaxQuantity}

\* the payment event ids of the calls: a label and a number
LineEventIds == {"PE-1", "1001"}

\* the payment contexts of the calls: adjustment factor unset, 0.5, 1.0 or 1.5, previous
\* balance -1.00, 0, 0.25 or 300.00
PaymentContexts ==
    {[payment_event_id |-> id,
      over_under |-> [payment_center_id |-> 1, previous_balance |-> b, records |-> <<>>],
      settings |-> s] :
        id \in LineEventIds,
        b \in {-Thousand, 0, 250, 300 * Thousand},
        s \in {EmptyDict} \cup {[adjustment_factor |-> f] : f \in {500, Thousand, 1500}}}

\* the variables of the other machines
outsideLines ==
    <<groupingVars, keyVars, centerVars, validationVars, runVars, fanVars, downstreamVars>>

InitLines ==
    /\ _rules_loaded = FALSE
    /\ service_line \in ServiceLines
    /\ line_event_id \in LineEventIds
    /\ context \in PaymentContexts
    /\ line_result = <<>>
    /\ IdleGrouping /\ IdleKeys /\ IdleCenters /\ IdleValidation /\ IdleRun /\ IdleFan
    /\ IdleDownstream

\* processor.compute_service_line(service_line, payment_event, context)
ComputeServiceLine ==
    /\ ~_rules_loaded
    /\ _rules_loaded' = TRUE
    /\ line_result' = compute_service_line(service_line, line_event_id, context)
    /\ UNCHANGED <<service_line, line_event_id, context, outsideLines>>

NextLines == ComputeServiceLine

SpecLines == InitLines /\ [][NextLines]_vars

\* the adjustment factor of a context, 1.0 when unset
FactorOf(ctx) ==
    IF "adjustment_factor" \in DOMAIN ctx.settings THEN ctx.settings["adjustment_factor"]
    ELSE Thousand

\* C20: every call of compute_service_line yields a payment whose calculated_amount is
\* allowed_amount * quantity * adjustment_factor (1.0 when unset) rounded to cents and whose
\* offsets_applied is min(max(previous_balance, 0), calculated_amount * 0.5): never more
\* than half the calculated amount, and zero for a negative previous_balance.
C20_OffsetAtMostHalf ==
    _rules_loaded =>
        /\ ~line_result.raised
        /\ line_result.value.calculated_amount =
              Round2(Mul(Mul(service_line.allowed_amount, service_line.quantity), FactorOf(context)))
        /\ line_result.value.offsets_applied =
              Min(Max(context.over_under.previous_balance, 0),
                  line_result.value.calculated_amount \div 2)
        /\ 2 * line_result.value.offsets_applied <= line_result.value.calculated_amount
        /\ context.over_under.previous_balance < 0 => line_result.value.offsets_applied = 0

----------------------------------------------------------------------------
(* ServiceLineProcessor.rollup_to_claim and apply_interest                 *)
(* (core/service_line_processor.py)                                        *)
(*                                                                         *)
(* Amounts are counted in thousandths as above; the allowed amounts drawn  *)
(* are whole cents that binary floating point holds exactly.               *)

\* ServiceLineCore(service_code=..., billed_amount=..., allowed_amount=...)
ServiceLineCore(service_code, billed_amount, allowed_amount) ==
    [service_code |-> service_code, billed_amount |-> billed_amount,
     allowed_amount |-> allowed_amount]

\* candidates of rollup_to_claim: paid_claims + adjust_claims, void_claims when that is empty
Candidates(group) ==
    IF group.paid_claims \o group.adjust_claims /= <<>>
    THEN group.paid_claims \o group.adjust_claims
    ELSE group.void_claims

\* the inner loop of rollup_to_claim over the service lines of one claim; acc holds
\* service_line_payments and total, or the exception that ended the loop
RECURSIVE RollupLines(_, _, _)
RollupLines(acc, claim_id, lines) ==
    IF acc.raised \/ lines = <<>> THEN acc
    ELSE LET sl == Head(lines)
             line == [service_code |-> sl.service_code, charge_amount |-> sl.billed_amount,
                      allowed_amount |-> sl.allowed_amount, quantity |-> Thousand]
             payment == ServiceLinePayment(line, sl.allowed_amount, 0, [claim_id |-> claim_id])
         IN  IF payment.raised THEN payment
             ELSE RollupLines(
                      Returns([service_line_payments |->
                                   Append(acc.value.service_line_payments, payment.value),
                               total |-> acc.value.total + sl.allowed_amount]),
                      claim_id, Tail(lines))

\* the outer loop of rollup_to_claim over the candidates
RECURSIVE RollupClaims(_, _)
RollupClaims(acc, candidates) ==
    IF acc.raised \/ candidates = <<>> THEN acc
    ELSE RollupClaims(RollupLines(acc, Head(candidates).claim_id, Head(candidates).service_lines),
                      Tail(candidates))

\* ServiceLineProcessor.rollup_to_claim: the ClaimPayment returned or the exception raised
rollup_to_claim(group) ==
    LET done == RollupClaims(Returns([service_line_payments |-> <<>>, total |-> 0]),
                             Candidates(group))
    IN  IF done.raised THEN done
        ELSE Returns([claim_id |-> group.parent_id,
                      service_line_payments |-> done.value.service_line_payments,
                      total_amount |-> Round2(done.value.total),
                      interest_amount |-> 0])

\* n / m rounded to the nearest whole number, a tie going to the even one; n >= 0, m > 0
RoundDiv(n, m) ==
    LET q == n \div m
        r == n % m
    IN  IF 2 * r < m THEN q
        ELSE IF 2 * r > m THEN q + 1
        ELSE IF q % 2 = 0 THEN q ELSE q + 1

\* days_late of apply_interest, since being (date.today() - due_date).days
days_late(since, rules) == Max(since - rules.grace_period_days, 0)

\* round(total_amount * rate * days_late / 365, 2) of a total of whole cents: the total
\* in cents times the rate in thousandths is a number of thousandths of a cent
Interest(total_amount, rate, late) ==
    10 * RoundDiv((total_amount \div 10) * rate * late, 365 * Thousand)

\* apply_interest that leaves a payment alone once it carries interest
apply_interest_Once(payment, rules, since) ==
    IF payment.interest_amount /= 0 THEN payment
    ELSE LET interest == Interest(payment.total_amount, rules.rate, days_late(since, rules))
         IN  [payment EXCEPT !.interest_amount = interest,
                             !.total_amount = Round2(payment.total_amount + interest)]

\* ServiceLineProcessor.apply_interest: the ClaimPayment after the call
apply_interest(payment, rules, since) ==
    LET interest == Interest(payment.total_amount, rules.rate, days_late(since, rules))
    IN  [payment EXCEPT !.interest_amount = interest,
                        !.total_amount = Round2(payment.total_amount + interest)]

----------------------------------------------------------------------------
(* The rollup machine: one parent group rolled up to a ClaimPayment, on    *)
(* which apply_interest is then called, once or more often.                *)

\* the most claims of the parent group, service lines of a claim and apply_interest calls
MaxGroupClaims == 2
MaxLines == 1
MaxInterestCalls == 2

\* the service lines of the claims: 0.25 and 1000.00 allowed
LineCores == {ServiceLineCore("99213", 1500 * Thousand, a) : a \in {250, 1000 * Thousand}}

\* the claims of the group: an original and a void claim with numbers as ids, and a
\* replacement claim with an id of the form the claim sources produce
RollupClaimSet ==
    {[Claim(c[1], "PARENT-1", "OPEN", c[2], None, None, None, None) EXCEPT !.service_lines = l] :
        c \in {<<"1001", ORIGINAL>>, <<"1002", VOID>>, <<"PE-1-ws-3", REPLACEMENT>>},
        l \in SeqsUpTo(LineCores, MaxLines)}

\* the group add_claim builds from a claim list
RECURSIVE AddClaims(_, _)
AddClaims(group, cs) ==
    IF cs = <<>> THEN group ELSE AddClaims(add_claim(group, Head(cs)), Tail(cs))

\* the InterestRules of the calls: rate 0 or 0.05, no grace period or 30 days
InterestRuleSet == {[rate |-> r, grace_period_days |-> g] : r \in {0, 50}, g \in {0, 30}}

\* the variables of the other machines
outsideRollup ==
    <<groupingVars, keyVars, centerVars, validationVars, runVars, fanVars, lineVars,
      concurrentVars, sequenceVars, attachVars>>

InitRollup ==
    /\ parent_group \in
          {AddClaims(ParentGroup("PARENT-1"), cs) : cs \in SeqsUpTo(RollupClaimSet, MaxGroupClaims)}
    /\ interest_rules \in InterestRuleSet
    /\ days_since_due \in {20, 60}
    /\ rollup_result = <<>> /\ claim_payment = <<>> /\ interest_totals = <<>>
    /\ IdleGrouping /\ IdleKeys /\ IdleCenters /\ IdleValidation
    /\ IdleRun /\ IdleFan /\ IdleLines
    /\ IdleConcurrent /\ IdleSequences /\ IdleAttach

\* claim_payment = processor.rollup_to_claim(parent_group)
RollupToClaim ==
    /\ rollup_result = <<>>
    /\ rollup_result' = rollup_to_claim(parent_group)
    /\ claim_payment' = IF rollup_result'.raised THEN <<>> ELSE <<rollup_result'.value>>
    /\ UNCHANGED <<parent_group, interest_rules, days_since_due, interest_totals, outsideRollup>>

\* processor.apply_interest(claim_payment, rules, due_date): the object is changed in place
ApplyInterest ==
    /\ claim_payment /= <<>>
    /\ Len(interest_totals) < MaxInterestCalls
    /\ claim_payment' = <<apply_interest(claim_payment[1], interest_rules, days_since_due)>>
    /\ interest_totals' = Append(interest_totals, claim_payment[1].total_amount)
    /\ UNCHANGED <<parent_group, interest_rules, days_since_due, rollup_result, outsideRollup>>

NextRollup == RollupToClaim \/ ApplyInterest

SpecRollup == InitRollup /\ [][NextRollup]_vars

\* the sum of allowed_amount over the service lines of a claim list
RECURSIVE AllowedSum(_)
AllowedSum(cs) ==
    IF cs = <<>> THEN 0
    ELSE LET lines == Head(cs).service_lines
             AllowedOf[i \in 0..Len(lines)] ==
                 IF i = 0 THEN 0 ELSE AllowedOf[i - 1] + lines[i].allowed_amount
         IN  AllowedOf[Len(lines)] + AllowedSum(Tail(cs))

\* the service lines of a claim list, in order, each with its claim id
RECURSIVE LinesOf(_)
LinesOf(cs) ==
    IF cs = <<>> THEN <<>>
    ELSE [i \in 1..Len(Head(cs).service_lines) |->
             [claim_id |-> Head(cs).claim_id, line |-> Head(cs).service_lines[i]]]
         \o LinesOf(Tail(cs))

\* the claims the rollup is to cover: paid and adjusted ones, the void ones when there
\* are neither
Covered(group) ==
    IF group.paid_claims = <<>> /\ group.adjust_claims = <<>> THEN group.void_claims
    ELSE group.paid_claims \o group.adjust_claims

\* C21: rollup_to_claim(parent_group) returns a ClaimPayment whose total_amount is the
\* sum of allowed_amount over the service lines of paid_claims + adjust_claims, of
\* void_claims only when both are empty, with one ServiceLinePayment per such line
\* carrying calculated_amount = allowed_amount and offsets_applied = 0.
C21_RollupTotals ==
    rollup_result /= <<>> =>
        /\ ~rollup_result.raised
        /\ rollup_result.value.total_amount = AllowedSum(Covered(parent_group))
        /\ LET payments == rollup_result.value.service_line_payments
               lines == LinesOf(Covered(parent_group))
           IN  /\ Len(payments) = Len(lines)
               /\ \A i \in 1..Len(lines) :
                     /\ payments[i].service_line.allowed_amount = lines[i].line.allowed_amount
                     /\ payments[i].calculated_amount = lines[i].line.allowed_amount
                     /\ payments[i].offsets_applied = 0

\* a void-only group: void claims and neither paid nor adjusted ones
VoidOnly(group) ==
    group.void_claims /= <<>> /\ group.paid_claims = <<>> /\ group.adjust_claims = <<>>

\* C22: for a parent group whose only claims are void claims rollup_to_claim returns a
\* ClaimPayment, and that record is zero-effect: its total_amount is 0.
C22_VoidOnlyZeroEffect ==
    (rollup_result /= <<>> /\ VoidOnly(parent_group)) =>
        /\ ~rollup_result.raised
        /\ rollup_result.value.claim_id = parent_group.parent_id
        /\ rollup_result.value.total_amount = 0

\* total_amount after the k-th apply_interest call, k = 0 being the rollup
TotalAfter(k) ==
    IF k < Len(interest_totals) THEN interest_totals[k + 1] ELSE claim_payment[1].total_amount

\* days_late of the calls: max(days since due_date - grace_period_days, 0)
DaysLate ==
    IF days_since_due - interest_rules.grace_period_days > 0
    THEN days_since_due - interest_rules.grace_period_days ELSE 0

\* interest, in thousandths, is total * rate * DaysLate / 365 rounded to a whole cent:
\* no whole cent lies nearer, and of two equally near ones it is the even one
IsInterestOn(interest, total) ==
    LET exact == (total \div 10) * interest_rules.rate * DaysLate
        cents == interest \div 10
        m == 365 * Thousand
        off == IF cents * m >= exact THEN cents * m - exact ELSE exact - cents * m
    IN  /\ interest % 10 = 0
        /\ 2 * off <= m
        /\ 2 * off = m => cents % 2 = 0

\* every apply_interest call so far added the rounded interest on the total it found,
\* and interest_amount is the interest of the last call
InterestApplied ==
    /\ \A k \in 1..Len(interest_totals) :
          IsInterestOn(TotalAfter(k) - TotalAfter(k - 1), TotalAfter(k - 1))
    /\ interest_totals /= <<>> =>
          claim_payment[1].interest_amount =
              TotalAfter(Len(interest_totals)) - TotalAfter(Len(interest_totals) - 1)

----------------------------------------------------------------------------
(* Concurrent runs: callers invoking run_dry_run / run_final_run for the   *)
(* same payment_event_id on one PaymentProcessor while an earlier          *)
(* invocation has not returned.  Each invocation has its own frame (the    *)
(* locals of the run method); the config loader, the claim repository and  *)
(* the clock are shared.  A step is one helper call of one invocation.     *)

\* the most invocations made
MaxInvocations == 2

\* the frame of run_dry_run (mode "dry-run") or run_final_run (mode "final") on entry
Frame(mode) ==
    [mode |-> mode, phase |-> "Start", stats |-> <<>>, payment_event |-> <<>>,
     report |-> ValidationReport(<<>>, FALSE), center_summary |-> <<>>, claims |-> <<>>,
     result |-> <<>>]

\* the helper is the next call of the frame
At(f, helper) == f.phase \in CallSite(helper, f.mode, f.report.blocked)

\* the frame after its next helper call, the clock reading t
Advance(f, t) ==
    IF At(f, "initialize_stats")
    THEN [f EXCEPT !.stats = initialize_stats(PaymentEventId, f.mode, t), !.phase = "Init"]
    ELSE IF At(f, "load_config")
    THEN LET loaded == load_config(_config_loader, connection, PaymentEventId) IN
         IF loaded.raised THEN [f EXCEPT !.phase = "Raised", !.result = loaded]
         ELSE [f EXCEPT !.phase = "ConfigLoaded",
                        !.payment_event = [loaded.value EXCEPT !.run_mode = f.mode]]
    ELSE IF At(f, "_safe_backup")
    THEN LET left == _safe_backup(backup_raises, DbUri) IN
         IF left.raised THEN [f EXCEPT !.phase = "Raised", !.result = left]
         ELSE [f EXCEPT !.phase = "BackedUp"]
    ELSE IF At(f, "validate_initial")
    THEN [f EXCEPT !.report = validate_initial(f.payment_event, f.mode), !.phase = "Validated"]
    ELSE IF At(f, "process_payment_centers")
    THEN [f EXCEPT !.center_summary = process_payment_centers(f.payment_event, EnsureCreate(f.mode)),
                   !.phase = "CentersResolved"]
    ELSE IF At(f, "transform_claims")
    THEN [f EXCEPT !.claims = transform_claims(f.payment_event), !.phase = "ClaimsTransformed"]
    ELSE IF At(f, "_apply_claim_metrics")
    THEN [f EXCEPT !.stats = _apply_claim_metrics(f.stats, f.claims, f.center_summary),
                   !.phase = "MetricsApplied"]
    ELSE LET done == finalize_stats(f.stats, f.report, t) IN
         [f EXCEPT !.stats = done, !.result = Returns(done), !.phase = "Finalized"]

\* the run method of the frame has returned or raised
Over(f) == f.phase \in {"Finalized", "Raised"}

\* the datastore mappings of the concurrent runs: the event of the run in stage ready
\* or draft, with one plan and one center type, or no record at all
ConcurrentConnections ==
    {c \in Connections :
        /\ c.inclusion_criteria = EmptyDict
        /\ c.payment_events /= EmptyDict =>
              LET r == c.payment_events[PaymentEventId] IN
              /\ "stage" \in DOMAIN r
              /\ r.stage \in {"ready", "draft"}
              /\ r.due_date = Today
              /\ r.allowed_plans = <<"PLAN-A">>
              /\ r.allowed_payment_center_types = <<"PROVIDER">>}

\* the variables of the other machines
outsideConcurrent ==
    <<groupingVars, keyVars, centerVars, validationVars, fanVars, lineVars, rollupVars,
      sequenceVars, attachVars>>

\* the run variables that belong to the single run of the run machine
singleRun ==
    <<run_mode, phase, payment_event, stats, initial_report, center_summary, run_claims,
      trace, run_result, main_result>>

InitConcurrent ==
    /\ invocations = <<>>
    /\ _config_loader \in {"ConfigLoader", "stub"}
    /\ connection \in IF _config_loader = "stub" THEN {EmptyDict} ELSE ConcurrentConnections
    /\ backup_raises \in {None, "NotImplementedError"}
    /\ _last_backup = None /\ now = 0
    /\ run_mode = "dry-run" /\ phase = "Idle"
    /\ payment_event = <<>> /\ stats = <<>> /\ initial_report = ValidationReport(<<>>, FALSE)
    /\ center_summary = <<>> /\ run_claims = <<>> /\ trace = <<>>
    /\ run_result = <<>> /\ main_result = <<>>
    /\ IdleGrouping /\ IdleKeys /\ IdleCenters /\ IdleValidation /\ IdleFan /\ IdleLines
    /\ IdleRollup /\ IdleSequences /\ IdleAttach

\* a caller enters processor.run_dry_run(payment_event_id) or
\* processor.run_final_run(payment_event_id); nothing in the method looks at the
\* invocations under way
Invoke(mode) ==
    /\ Len(invocations) < MaxInvocations
    /\ invocations' = Append(invocations, Frame(mode))
    /\ UNCHANGED <<_config_loader, connection, backup_raises, _last_backup, now, singleRun,
                   outsideConcurrent>>

\* invocation i makes its next helper call: the clock ticks when the helper reads it,
\* and _safe_backup leaves its mark in the shared claim repository
Step(i) ==
    /\ ~Over(invocations[i])
    /\ invocations' = [invocations EXCEPT ![i] = Advance(@, now)]
    /\ now' = IF \/ At(invocations[i], "initialize_stats")
                 \/ At(invocations[i], "finalize_stats")
                 \/ At(invocations[i], "load_config") /\ _config_loader = "stub"
              THEN now + 1 ELSE now
    /\ _last_backup' =
          IF At(invocations[i], "_safe_backup") /\ ~backup(backup_raises, DbUri).raised
          THEN backup(backup_raises, DbUri).value ELSE _last_backup
    /\ UNCHANGED <<_config_loader, connection, backup_raises, singleRun, outsideConcurrent>>

NextConcurrent ==
    \/ \E mode \in RunMode : Invoke(mode)
    \/ \E i \in 1..Len(invocations) : Step(i)

SpecConcurrent == InitConcurrent /\ [][NextConcurrent]_vars

\* the invocation has gone past Init and has not returned or raised yet
InFlight(f) == f.phase \notin {"Start", "Init", "Finalized", "Raised"}

\* the invocation is between resolving its centers and finalizing: it aggregates claims
Aggregating(f) == f.phase \in {"CentersResolved", "ClaimsTransformed", "MetricsApplied"}

\* C24: at most one run is in flight per payment_event_id at any time: two invocations
\* of run_dry_run / run_final_run for the same event id are never both past Init and
\* under way, and never both in their claim aggregation.
C24_OneRunInFlight ==
    \A i, j \in 1..Len(invocations) :
        i /= j =>
            /\ ~(InFlight(invocations[i]) /\ InFlight(invocations[j]))
            /\ ~(Aggregating(invocations[i]) /\ Aggregating(invocations[j]))

----------------------------------------------------------------------------
(* Validation.validate_sequences (core/validation.py)                      *)
(*                                                                         *)
(* report.expected is iterated in insertion order, so it is the list of    *)
(* its items, each a pair <<key, value>>; report.actual is only looked up. *)

\* f"{key}:{actual}->{expected}", actual being report.actual.get(key)
Discrepancy(key, actual, expected) ==
    key \o ":" \o (IF key \in DOMAIN actual THEN ToString(actual[key]) ELSE "None")
        \o "->" \o ToString(expected)

\* the loop of validate_sequences over report.expected.items()
RECURSIVE SequenceLoop(_, _, _)
SequenceLoop(discrepancies, expected_items, actual) ==
    IF expected_items = <<>> THEN discrepancies
    ELSE LET key == Head(expected_items)[1]
             expected == Head(expected_items)[2]
         IN  SequenceLoop(
                 IF key \notin DOMAIN actual \/ actual[key] /= expected
                 THEN Append(discrepancies, Discrepancy(key, actual, expected))
                 ELSE discrepancies,
                 Tail(expected_items), actual)

\* Validation.validate_sequences: the Finding built
validate_sequences(rep) ==
    LET discrepancies == SequenceLoop(<<>>, rep.expected, rep.actual) IN
    Finding(IF discrepancies = <<>> THEN "INFO" ELSE "WARNING",
            IF discrepancies = <<>> THEN "Sequences verified" ELSE "Sequence allocation mismatch",
            Len(discrepancies), FirstFive(discrepancies))

----------------------------------------------------------------------------
(* The sequence machine: one Validation instance checking SequenceReports *)

\* the most keys of report.expected, and the largest sequence number
MaxExpected == 2
MaxSequence == 2

\* the sequence names: two that runs expect and one they do not
ExpectedKeys == {"claims", "payments"}
SequenceKeys == ExpectedKeys \cup {"checks"}

\* the dicts over some of the keys K with values in V
Dicts(K, V) == UNION {[D -> V] : D \in SUBSET K}

\* the lists of items of the dicts with at most n of the keys K, in every insertion order
ItemLists(K, V, n) ==
    {l \in SeqsUpTo(K \X V, n) : \A i, j \in 1..Len(l) : l[i][1] = l[j][1] => i = j}

\* the SequenceReports handed in
SequenceReports ==
    {[expected |-> x, actual |-> a] :
        x \in ItemLists(ExpectedKeys, 1..MaxSequence, MaxExpected),
        a \in Dicts(SequenceKeys, 1..MaxSequence)}

InitSequences ==
    /\ sequence_report \in SequenceReports
    /\ claims_list = <<>> /\ _findings = <<>> /\ returned = <<>>
    /\ report = ValidationReport(<<>>, FALSE)
    /\ outcome = [op |-> "init"]
    /\ IdleGrouping /\ IdleKeys /\ IdleCenters
    /\ IdleRun /\ IdleFan /\ IdleLines /\ IdleRollup /\ IdleConcurrent /\ IdleAttach

\* validation.validate_sequences(sequence_report)
ValidateSequences ==
    /\ Len(_findings) < MaxFindings
    /\ LET finding == validate_sequences(sequence_report) IN
        /\ _findings' = _capture(_findings, finding)
        /\ returned' = Append(returned, finding)
        /\ outcome' = [op |-> "validate_sequences", result |-> Returns(finding)]
    /\ UNCHANGED <<sequence_report, claims_list, report, groupingVars, keyVars, centerVars,
                   runVars, fanVars, lineVars, rollupVars, concurrentVars, attachVars>>

NextSequences == ValidateSequences

SpecSequences == InitSequences /\ [][NextSequences]_vars

\* report.expected as a mapping
ExpectedOf(rep) ==
    [k \in {rep.expected[i][1] : i \in 1..Len(rep.expected)} |->
        (CHOOSE item \in Range(rep.expected) : item[1] = k)[2]]

\* the keys on which the two mappings of a report differ: held by one only, or held by
\* both with different values
Mismatching(rep) ==
    LET expected == ExpectedOf(rep) IN
    {k \in DOMAIN expected \cup DOMAIN rep.actual :
        \/ k \notin DOMAIN expected
        \/ k \notin DOMAIN rep.actual
        \/ expected[k] /= rep.actual[k]}

\* C25: validate_sequences returns WARNING iff the expected and actual mappings differ
\* for at least one key, with count the number of mismatching keys and each sample of
\* the form "key:actual->expected"; it returns INFO with count 0 iff the two mappings
\* agree on every key.
C25_SequenceMismatch ==
    outcome.op = "validate_sequences" =>
        LET finding == outcome.result.value
            expected == ExpectedOf(sequence_report)
        IN  /\ finding.severity \in {"INFO", "WARNING"}
            /\ finding.severity = "WARNING" <=> Mismatching(sequence_report) /= {}
            /\ finding.count = Cardinality(Mismatching(sequence_report))
            /\ \A i \in 1..Len(finding.sample_ids) :
                  \E k \in Mismatching(sequence_report) \cap DOMAIN expected :
                      finding.sample_ids[i] =
                          Discrepancy(k, sequence_report.actual, expected[k])
            /\ (finding.severity = "INFO" /\ finding.count = 0) <=>
                  Mismatching(sequence_report) = {}

----------------------------------------------------------------------------
(* ClaimTransformer.to_payment_center_claims (core/claim_processor.py) and *)
(* Validation.validate_payment_centers (core/validation.py)                *)

\* [claim.claim_id for claim in cs]
ClaimIdList(cs) == [i \in 1..Len(cs) |-> cs[i].claim_id]

\* sum(len(claim.service_lines) for claim in cs)
RECURSIVE LineCount(_)
LineCount(cs) == IF cs = <<>> THEN 0 ELSE Len(Head(cs).service_lines) + LineCount(Tail(cs))

\* sum(sl.allowed_amount for sl in lines)
RECURSIVE SumAllowed(_)
SumAllowed(lines) ==
    IF lines = <<>> THEN 0 ELSE Head(lines).allowed_amount + SumAllowed(Tail(lines))

\* sum(sum(sl.allowed_amount for sl in claim.service_lines) for claim in cs)
RECURSIVE ProjectedPayment(_)
ProjectedPayment(cs) ==
    IF cs = <<>> THEN 0 ELSE SumAllowed(Head(cs).service_lines) + ProjectedPayment(Tail(cs))

\* one turn of the loop of to_payment_center_claims over grouped.items(); acc holds
\* pc_cache, pc_claims and the exception that ended the loop, None while it runs
AttachStep(acc, group, t) ==
    LET claim_ids == ClaimIdList(group.paid_claims \o group.adjust_claims \o group.void_claims)
    IN
    IF acc.error /= None \/ claim_ids = <<>> THEN acc
    ELSE IF group.paid_claims = <<>> /\ group.adjust_claims = <<>>
    THEN [acc EXCEPT !.error = "IndexError"]
    ELSE LET sample_claim == IF group.paid_claims /= <<>> THEN group.paid_claims[1]
                             ELSE group.adjust_claims[1]
             key == _derive_pc_key(sample_claim, t)
             payment_center_id == IF key \in DOMAIN acc.cache THEN acc.cache[key]
                                  ELSE Cardinality(DOMAIN acc.cache) + 1
             totals == [claims |-> Len(claim_ids),
                        service_lines |-> LineCount(group.paid_claims),
                        projected_payment |-> ProjectedPayment(group.paid_claims)]
         IN  [acc EXCEPT !.cache = IF key \in DOMAIN acc.cache THEN @
                                   ELSE (key :> payment_center_id) @@ @,
                         !.pc_claims = Append(@, [payment_center_id |-> payment_center_id,
                                                  claim_ids |-> claim_ids, totals |-> totals])]

RECURSIVE AttachLoop(_, _, _)
AttachLoop(acc, groups, t) ==
    IF groups = <<>> THEN acc ELSE AttachLoop(AttachStep(acc, Head(groups), t), Tail(groups), t)

\* ClaimTransformer.attach_over_under: pc_claims after the call
attach_over_under(entries, ou_summary) ==
    [i \in 1..Len(entries) |->
        IF entries[i].payment_center_id /= ou_summary.payment_center_id THEN entries[i]
        ELSE [entries[i] EXCEPT !.totals =
                 [previous_balance |-> ou_summary.previous_balance,
                  ou_records |-> Len(ou_summary.records)] @@ @]]

\* ClaimTransformer.to_payment_center_claims: pc_cache after the call, and the list
\* returned or the exception raised
to_payment_center_claims(cs, pc_cache, t, ou_summary) ==
    LET done == AttachLoop([cache |-> pc_cache, pc_claims |-> <<>>, error |-> None],
                           group_by_parent(cs), t)
    IN  [cache |-> done.cache,
         result |-> IF done.error /= None THEN Raises(done.error, "list index out of range")
                    ELSE Returns(attach_over_under(done.pc_claims, ou_summary))]

\* Validation.validate_payment_centers: the Finding built
validate_payment_centers(summary) ==
    IF summary.missing_keys /= <<>>
    THEN Finding("CRITICAL", "Missing PaymentCenters detected", Len(summary.missing_keys),
                 FirstFive(summary.missing_keys))
    ELSE IF summary.created_prod_ids /= <<>>
    THEN Finding("INFO", "PaymentCenters created during sync", Len(summary.created_prod_ids), <<>>)
    ELSE Finding("INFO", "PaymentCenter summary healthy", 0, <<>>)

----------------------------------------------------------------------------
(* The attachment machine: the center machine, a Validation instance that  *)
(* checks the summaries, and a ClaimTransformer that is handed the cache   *)
(* build_cache returned (built) and extends it in place.                   *)

\* the most to_payment_center_claims calls on one cache, the longest claim list, and the
\* most summaries the Validation instance checks
MaxTransforms == 2
MaxAttached == 2
MaxChecked == 1

\* the composite keys callers synchronize
AttachKeys == {"PROVIDER:TIN-1", "PROVIDER:TIN-2"}

\* the claim lists handed to the transformer: claim i has the id CLM-i and one service
\* line of 0.25; it is an original claim of the first parent with a TIN the manager
\* knows, an original claim of the second parent with a TIN it does not know, or a
\* void claim of either
AttachedClaims ==
    {[i \in 1..Len(l) |->
        [Claim("CLM-" \o ToString(i), l[i][1], "OPEN", l[i][2], l[i][3], None, None, None)
            EXCEPT !.service_lines = <<ServiceLineCore("99213", 1500 * Thousand, 250)>>]] :
        l \in SeqsUpTo({<<"PARENT-1", ORIGINAL, "TIN-1">>, <<"PARENT-2", ORIGINAL, "TIN-3">>,
                        <<"PARENT-1", VOID, "TIN-1">>, <<"PARENT-2", VOID, "TIN-3">>},
                       MaxAttached)}

\* the OUSummary handed to the transformer
AttachedOUSummary ==
    [payment_center_id |-> 1, previous_balance |-> 300 * Thousand, records |-> <<>>]

InitAttach ==
    /\ _cache = EmptyDict /\ _next_id = 1
    /\ summaries = <<>> /\ passed = <<>>
    /\ created = EmptyDict /\ built = EmptyDict
    /\ last = [op |-> "init", s |-> 0]
    /\ claims_list = <<>> /\ _findings = <<>> /\ returned = <<>>
    /\ report = ValidationReport(<<>>, FALSE)
    /\ outcome = [op |-> "init"]
    /\ pc_claims = <<>> /\ transforms = 0
    /\ IdleGrouping /\ IdleKeys
    /\ IdleRun /\ IdleFan /\ IdleLines /\ IdleRollup /\ IdleConcurrent /\ IdleSequences

\* validation.validate_payment_centers(summaries[s])
ValidatePaymentCenters(s) ==
    /\ Len(_findings) < MaxChecked
    /\ LET finding == validate_payment_centers(summaries[s]) IN
        /\ _findings' = _capture(_findings, finding)
        /\ returned' = Append(returned, finding)
        /\ outcome' = [op |-> "validate_payment_centers", s |-> s, result |-> Returns(finding)]
    /\ UNCHANGED <<claims_list, report, centerVars, groupingVars, keyVars, runVars, fanVars,
                   lineVars, rollupVars, concurrentVars, sequenceVars, attachVars>>

\* pc_claims = transformer.to_payment_center_claims(cs, built, PaymentCenterType.PROVIDER,
\* ou_summary), built being the cache a build_cache call returned; the cache built for
\* the transformer is the manager's no more
ToPaymentCenterClaims(cs) ==
    /\ last.op \in {"build_cache", "to_payment_center_claims"}
    /\ transforms < MaxTransforms
    /\ LET done == to_payment_center_claims(cs, built, "PROVIDER", AttachedOUSummary) IN
        /\ built' = done.cache
        /\ pc_claims' = done.result
    /\ transforms' = transforms + 1
    /\ last' = [op |-> "to_payment_center_claims", s |-> 0, claims |-> cs]
    /\ UNCHANGED <<_cache, _next_id, summaries, passed, created, validationVars, groupingVars,
                   keyVars, runVars, fanVars, lineVars, rollupVars, concurrentVars,
                   sequenceVars>>

NextAttach ==
    \/ \E ks \in SUBSET AttachKeys : SyncToWs(ks)
    \/ \E s \in 1..Len(summaries) : CreateMissingInProd(s)
    \/ \E s \in 1..Len(summaries) : BuildCache(s)
    \/ \E s \in 1..Len(summaries) : ValidatePaymentCenters(s)
    \/ \E cs \in AttachedClaims : ToPaymentCenterClaims(cs)

SpecAttach == InitAttach /\ [][NextAttach]_vars

\* C26: in a cache obtained from build_cache and then extended by
\* to_payment_center_claims no two distinct composite keys map to the same id, and no
\* call changes or removes the id of a key the cache holds, after any sequence of calls.
C26_CacheIdsUnique ==
    /\ [](\A j, k \in DOMAIN built : built[j] = built[k] => j = k)
    /\ [][last'.op = "to_payment_center_claims" =>
            \A k \in DOMAIN built : k \in DOMAIN built' /\ built'[k] = built[k]]_vars

\* every key of summary.missing_keys has an id in the manager's cache
AllMissingResolved(summary) == \A i \in 1..Len(summary.missing_keys) : summary.missing_keys[i] \in DOMAIN _cache

\* C27: in the order sync_to_ws -> create_missing_in_prod -> validate_payment_centers on
\* the same summary, once every missing key has been given an id, the check returns INFO
\* noting the created-in-prod count, not CRITICAL, and so does not block the run.
C27_ResolvedSummaryPasses ==
    (/\ outcome.op = "validate_payment_centers"
     /\ passed[outcome.s]
     /\ AllMissingResolved(summaries[outcome.s])) =>
        /\ outcome.result.value.severity = "INFO"
        /\ ~is_critical(outcome.result.value)
        /\ outcome.result.value.count = Len(summaries[outcome.s].created_prod_ids)

\* the parent ids of a claim list
ParentIds(cs) == {cs[i].parent_claim_core_id : i \in 1..Len(cs)}

\* C29: for every claim list, parent groups of void claims only included,
\* to_payment_center_claims completes without error and returns one entry per parent
\* group, in ascending parent_id order, such that every input claim's claim_id is in
\* exactly one entry's claim_ids and each entry's totals["claims"] is the length of its
\* claim_ids.
C29_OneEntryPerParent ==
    last.op = "to_payment_center_claims" =>
        /\ ~pc_claims.raised
        /\ LET entries == pc_claims.value
               parents == SortedKeys(ParentIds(last.claims))
           IN  /\ Len(entries) = Len(parents)
               /\ \A e \in 1..Len(entries) :
                     /\ Range(entries[e].claim_ids) =
                           {last.claims[i].claim_id : i \in
                               {i \in 1..Len(last.claims) :
                                   last.claims[i].parent_claim_core_id = parents[e]}}
                     /\ entries[e].totals.claims = Len(entries[e].claim_ids)
               /\ \A i \in 1..Len(last.claims) :
                     Cardinality({e \in 1..Len(entries) :
                         \E n \in 1..Len(entries[e].claim_ids) :
                             entries[e].claim_ids[n] = last.claims[i].claim_id}) = 1

\* ---- the metrics of a run (SpecRun) ----

\* the ids of the centers process_payment_centers resolved, in list order
ResolvedCenterIds ==
    [i \in 1..Len(center_summary.centers) |-> center_summary.centers[i].payment_center_id]

\* the center the claim at position i of the transformed claims is counted on: the hinted
\* one when it is a resolved center, otherwise the centers in turn
CenterOf(i) ==
    IF run_claims[i].payment_center_hint \in Range(ResolvedCenterIds)
    THEN run_claims[i].payment_center_hint
    ELSE ResolvedCenterIds[((i - 1) % Len(ResolvedCenterIds)) + 1]

\* the projected payments of the transformed claims at the positions in S, added up
RECURSIVE PaymentsOf(_)
PaymentsOf(S) ==
    IF S = {} THEN 0
    ELSE LET i == CHOOSE i \in S : TRUE
         IN  run_claims[i].projected_payment + PaymentsOf(S \ {i})

\* the run is not blocked and its metrics phase is over
MetricsDone ==
    /\ phase \in {"MetricsApplied", "Finalized", "Exited"}
    /\ "_apply_claim_metrics" \in Range(trace)
    /\ ~initial_report.blocked

============================================================================
